---------------------------- MODULE Spec2Model ----------------------------
(***************************************************************************)
(* A model of the ultrareach360 API: the email dispatch router             *)
(* (EmailService.send with its three providers), the token validator       *)
(* (validateToken over jsonwebtoken), the two login handlers that issue    *)
(* tokens, the memoized database connection (connectDB) under concurrent   *)
(* callers, and the two messaging endpoint handlers.                       *)
(***************************************************************************)
EXTENDS Integers, Sequences, FiniteSets, TLC

(***************************************************************************)
(* Bounds of the model.                                                    *)
(***************************************************************************)
\* number of EmailService.send calls / messaging requests that overlap
MaxCalls == 2

Calls == 1..MaxCalls

\* an absent (undefined) property of a JavaScript object
Undefined == "undefined"

(***************************************************************************)
(* The state.                                                              *)
(***************************************************************************)
VARIABLES
  \* the email service (EmailService and its providers)
  configured,   \* provider name -> its `configured` field
  config,       \* EmailService.config: primaryProvider, fallbackProvider
  sendPc,       \* call -> where the EmailService.send call stands
  attempts,     \* call -> the provider sends this call has made, in order
  sendResult,   \* call -> what EmailService.send returned
  transporter,  \* SmtpProvider.transporter exists (is not null)
  smtpVerify,   \* where SmtpProvider.verifyConnection stands
  providerCall, \* a provider's send called on its own: [name, pc, ...]
  \* the clock and the user store
  now,          \* the current day
  users,        \* the User collection: id -> document
  cached,       \* mongodb.ts: the memoized connection, [conn, promise]
  connections,  \* the mongoose.connect attempts started by connectDB calls
  callers,      \* caller -> where its connectDB call stands
  tasks,        \* the job queue: calls and continuations waiting to run
  \* what the client holds and what it was last answered
  held,         \* the token of the last successful login: <<[token, claims]>>
  loginResp,    \* the login answered last, today: <<[mode, request, ...]>>
  authResult,   \* the validateToken call made last, today: <<[header, ...]>>
  \* the messaging endpoints
  fromEmails,   \* the providers whose *_FROM_EMAIL variable is set
  twilioEnv,    \* TWILIO_* of the environment: [creds, phone]
  twilioInitialized,  \* send-sms/route.ts: the lazy initialisation ran
  twilioClient, \* send-sms/route.ts: the client exists (is not null)
  request           \* the messaging request being handled

providerVars == <<configured, config, transporter, smtpVerify, providerCall>>

routerVars == <<providerVars, sendPc, attempts, sendResult>>

connVars == <<connections, callers, tasks>>

storeVars == <<users, cached, connVars>>

sessionVars == <<held, loginResp, authResult>>

msgVars == <<fromEmails, twilioEnv, twilioInitialized, twilioClient, request>>

vars == <<routerVars, now, storeVars, sessionVars, msgVars>>

(***************************************************************************)
(* Email providers and the dispatch router (EmailService).                 *)
(***************************************************************************)
\* EmailProviderType: the names registered in EmailService.providers
ProviderNames == {"sendgrid", "resend", "smtp"}

\* EMAIL_PROVIDER / EMAIL_FALLBACK_PROVIDER are cast to EmailProviderType
\* unchecked, so the configuration may also hold a name no provider has.
ConfigNames == ProviderNames \cup {"mailgun"}

\* what the transport client of each provider may answer
TransportOutcomes(name) ==
  CASE name = "sendgrid" -> {"ok", "401", "429"}
    [] name = "resend"   -> {"ok", "apiError", "throwApiKey"}
    [] name = "smtp"     -> {"ok", "EAUTH", "ETIMEDOUT"}

NoResult ==
  [success |-> FALSE, messageId |-> Undefined, error |-> Undefined,
   provider |-> Undefined]

ProviderSuccess(name) ==
  [success |-> TRUE, messageId |-> "message-id", error |-> Undefined,
   provider |-> name]

ProviderFailure(name, text) ==
  [success |-> FALSE, messageId |-> Undefined, error |-> text,
   provider |-> name]

\* SendGridProvider.send once sgMail.send has answered
SendGridSend(outcome) ==
  CASE outcome = "ok"  -> ProviderSuccess("sendgrid")
    [] outcome = "401" ->
         ProviderFailure("sendgrid",
           "Email service authentication failed. Please contact support.")
    [] outcome = "429" ->
         ProviderFailure("sendgrid",
           "Email service is busy. Please try again later.")

\* ResendProvider.send once resend.emails.send has answered
ResendSend(outcome) ==
  CASE outcome = "ok"          -> ProviderSuccess("resend")
    [] outcome = "apiError"    ->
         ProviderFailure("resend", "resend api error message")
    [] outcome = "throwApiKey" ->
         ProviderFailure("resend",
           "Email service authentication failed. Please contact support.")

\* SmtpProvider.send once transporter.sendMail has answered
SmtpSend(outcome) ==
  CASE outcome = "ok"        -> ProviderSuccess("smtp")
    [] outcome = "EAUTH"     ->
         ProviderFailure("smtp",
           "Email authentication failed. Please contact support.")
    [] outcome = "ETIMEDOUT" ->
         ProviderFailure("smtp",
           "Email server is not responding. Please try again later.")

ProviderSend(name, outcome) ==
  CASE name = "sendgrid" -> SendGridSend(outcome)
    [] name = "resend"   -> ResendSend(outcome)
    [] name = "smtp"     -> SmtpSend(outcome)

\* the error texts a provider can put in its result
ProviderErrorTexts ==
  {ProviderSend(n, o).error : <<n, o>> \in
     {<<n, o>> \in ProviderNames \X
        {"ok", "401", "429", "apiError", "throwApiKey", "EAUTH", "ETIMEDOUT"} :
        o \in TransportOutcomes(n)}} \ {Undefined}

\* provider?.isConfigured(): providers.get of an unregistered name is
\* undefined, which the optional call turns into a falsy value
IsConfigured(name) == name \in ProviderNames /\ configured[name]

\* line 198/206: the primary is attempted
PrimaryAttempted_Unguarded == config.primaryProvider \in ProviderNames

PrimaryAttempted == IsConfigured(config.primaryProvider)

\* line 228/236: the fallback is attempted
FallbackAttempted_SameName == IsConfigured(config.fallbackProvider)

FallbackAttempted_Unguarded ==
  /\ config.fallbackProvider # config.primaryProvider
  /\ config.fallbackProvider \in ProviderNames

FallbackAttempted ==
  /\ config.fallbackProvider # config.primaryProvider
  /\ IsConfigured(config.fallbackProvider)

\* line 210: the primary's result ends the call
PrimaryReturns_Never(result) == FALSE

PrimaryReturns(result) == result.success

\* line 240/245: what the call returns when the fallback reported success
FallbackReturn_Wrapped(result) ==
  [result EXCEPT !.provider = config.primaryProvider]

FallbackReturn(result) == result

\* lines 262-265: the terminal failure
AllProvidersFailed_Detailed(last) ==
  [success |-> FALSE,
   messageId |-> Undefined,
   error |-> IF last = <<>> THEN "All email providers failed or are not configured"
             ELSE last[1].result.error,
   provider |-> IF last = <<>> THEN Undefined ELSE last[1].name]

AllProvidersFailed(last) ==
  [success |-> FALSE,
   messageId |-> Undefined,
   error |-> "All email providers failed or are not configured",
   provider |-> Undefined]

Attempt(name, role) ==
  [name |-> name, role |-> role, state |-> "inflight", result |-> NoResult]

InFlight(c) == {i \in 1..Len(attempts[c]) : attempts[c][i].state = "inflight"}

\* the last attempt of a call, as a sequence of at most one element
LastAttempt(seq) == IF seq = <<>> THEN <<>> ELSE <<seq[Len(seq)]>>

\* lines 227-265 with the attempts made so far: start the fallback or end
\* the call with the terminal failure
FallbackStage(c, made) ==
  IF FallbackAttempted
  THEN /\ attempts' = [attempts EXCEPT ![c] =
                         Append(made, Attempt(config.fallbackProvider, "fallback"))]
       /\ sendPc' = [sendPc EXCEPT ![c] = "fallback"]
       /\ UNCHANGED sendResult
  ELSE /\ attempts' = [attempts EXCEPT ![c] = made]
       /\ sendPc' = [sendPc EXCEPT ![c] = "done"]
       /\ sendResult' = [sendResult EXCEPT ![c] =
                           AllProvidersFailed(LastAttempt(made))]

\* a bug the router does not have: both providers are started together
SendBegin_Racing(c) ==
  /\ sendPc[c] = "idle"
  /\ IF PrimaryAttempted
     THEN /\ attempts' = [attempts EXCEPT ![c] =
               IF FallbackAttempted
               THEN <<Attempt(config.primaryProvider, "primary"),
                      Attempt(config.fallbackProvider, "fallback")>>
               ELSE <<Attempt(config.primaryProvider, "primary")>>]
          /\ sendPc' = [sendPc EXCEPT ![c] = "primary"]
          /\ UNCHANGED sendResult
     ELSE FallbackStage(c, <<>>)
  /\ UNCHANGED providerVars

\* EmailService.send up to its first await (lines 184-208, or 184-238 when
\* the primary is skipped), as it changes the email service
SendBegin(c) ==
  /\ sendPc[c] = "idle"
  /\ IF PrimaryAttempted
     THEN /\ attempts' = [attempts EXCEPT ![c] =
                            <<Attempt(config.primaryProvider, "primary")>>]
          /\ sendPc' = [sendPc EXCEPT ![c] = "primary"]
          /\ UNCHANGED sendResult
     ELSE FallbackStage(c, <<>>)
  /\ UNCHANGED providerVars

\* the primary's send resolves (lines 208-225), then lines 227-265
PrimaryCompletes(c) ==
  /\ sendPc[c] = "primary"
  /\ \E outcome \in TransportOutcomes(config.primaryProvider) :
       LET result == ProviderSend(config.primaryProvider, outcome)
           made   == [attempts[c] EXCEPT ![1].state = "done",
                                        ![1].result = result]
       IN IF PrimaryReturns(result)
          THEN /\ attempts' = [attempts EXCEPT ![c] = made]
               /\ sendPc' = [sendPc EXCEPT ![c] = "done"]
               /\ sendResult' = [sendResult EXCEPT ![c] = result]
          ELSE FallbackStage(c, made)
  /\ UNCHANGED <<providerVars, now, storeVars, sessionVars, msgVars>>

\* the fallback's send resolves (lines 238-265)
FallbackCompletes(c) ==
  /\ sendPc[c] = "fallback"
  /\ \E outcome \in TransportOutcomes(config.fallbackProvider) :
       LET result == ProviderSend(config.fallbackProvider, outcome)
           n      == Len(attempts[c])
           made   == [attempts[c] EXCEPT ![n].state = "done",
                                        ![n].result = result]
       IN /\ attempts' = [attempts EXCEPT ![c] = made]
          /\ sendPc' = [sendPc EXCEPT ![c] = "done"]
          /\ sendResult' = [sendResult EXCEPT ![c] =
               IF result.success THEN FallbackReturn(result)
               ELSE AllProvidersFailed(LastAttempt(made))]
  /\ UNCHANGED <<providerVars, now, storeVars, sessionVars, msgVars>>

\* the caller has the result; the call slot is free for the next call (as
\* it changes the email service)
SendReturn(c) ==
  /\ sendPc[c] = "done"
  /\ sendPc' = [sendPc EXCEPT ![c] = "idle"]
  /\ attempts' = [attempts EXCEPT ![c] = <<>>]
  /\ sendResult' = [sendResult EXCEPT ![c] = NoResult]
  /\ UNCHANGED providerVars

\* some caller calls emailService.send
SendCalled(c) ==
  /\ SendBegin(c)
  /\ UNCHANGED <<now, storeVars, sessionVars, msgVars>>

\* that caller takes the result
SendReturned(c) ==
  /\ SendReturn(c)
  /\ UNCHANGED <<now, storeVars, sessionVars, msgVars>>

\* the error of a send on a provider that is not configured
NotConfiguredText(name) ==
  CASE name = "sendgrid" ->
         "SendGrid is not configured. Set SENDGRID_API_KEY environment variable."
    [] name = "resend"   ->
         "Resend is not configured. Set RESEND_API_KEY environment variable."
    [] name = "smtp"     ->
         "SMTP is not configured. Check SMTP_HOST, SMTP_USER, and SMTP_PASS environment variables."

\* the guard at the head of a provider's send: !this.configured, and for
\* SMTP also !this.transporter (the Resend client exists exactly when the
\* provider is configured)
CanSend(name) == configured[name] /\ (name = "smtp" => transporter)

\* no send is being called on a provider directly
NoProviderCall ==
  [name |-> Undefined, pc |-> "idle", transportCalls |-> 0,
   verifyAtStart |-> "none", result |-> NoResult]

\* a send that goes to its transport whatever the configuration
ProviderSendBegin_Unchecked(name) ==
  /\ providerCall.pc = "idle"
  /\ providerCall' = [NoProviderCall EXCEPT
                        !.name = name, !.pc = "transport",
                        !.transportCalls = 1, !.verifyAtStart = smtpVerify]
  /\ UNCHANGED <<configured, config, transporter, smtpVerify, sendPc,
                 attempts, sendResult, now, storeVars, sessionVars, msgVars>>

\* a provider's send up to its transport call: the configuration guard
\* returns a failure, otherwise the transport client is called once
ProviderSendBegin(name) ==
  /\ providerCall.pc = "idle"
  /\ providerCall' =
       IF ~CanSend(name)
       THEN [NoProviderCall EXCEPT
               !.name = name, !.pc = "done", !.verifyAtStart = smtpVerify,
               !.result = ProviderFailure(name, NotConfiguredText(name))]
       ELSE [NoProviderCall EXCEPT
               !.name = name, !.pc = "transport",
               !.transportCalls = 1, !.verifyAtStart = smtpVerify]
  /\ UNCHANGED <<configured, config, transporter, smtpVerify, sendPc,
                 attempts, sendResult, now, storeVars, sessionVars, msgVars>>

\* the transport client answers or throws; send returns the result
ProviderSendAnswer(outcome) ==
  /\ providerCall.pc = "transport"
  /\ outcome \in TransportOutcomes(providerCall.name)
  /\ providerCall' = [providerCall EXCEPT
                        !.pc = "done",
                        !.result = ProviderSend(providerCall.name, outcome)]
  /\ UNCHANGED <<configured, config, transporter, smtpVerify, sendPc,
                 attempts, sendResult, now, storeVars, sessionVars, msgVars>>

\* the caller of the provider has the result
ProviderSendReturn ==
  /\ providerCall.pc = "done"
  /\ providerCall' = NoProviderCall
  /\ UNCHANGED <<configured, config, transporter, smtpVerify, sendPc,
                 attempts, sendResult, now, storeVars, sessionVars, msgVars>>

\* a verification that disables the provider when it fails
VerifyConnectionCompletes_Disabling(verified) ==
  /\ smtpVerify = "pending"
  /\ smtpVerify' = (IF verified THEN "verified" ELSE "failed")
  /\ configured' = [configured EXCEPT !["smtp"] = verified]
  /\ transporter' = verified
  /\ UNCHANGED <<config, providerCall, sendPc, attempts, sendResult, now,
                 storeVars, sessionVars, msgVars>>

\* SmtpProvider.verifyConnection after its await: transporter.verify()
\* resolved or rejected; either way the provider is left as it is
VerifyConnectionCompletes(verified) ==
  /\ smtpVerify = "pending"
  /\ smtpVerify' = (IF verified THEN "verified" ELSE "failed")
  /\ UNCHANGED <<configured, config, transporter, providerCall, sendPc,
                 attempts, sendResult, now, storeVars, sessionVars, msgVars>>

\* the state once `new EmailService()` has run: each provider's configured
\* flag is what the environment gave it, the selection is any two names
InitRouter ==
  /\ configured \in [ProviderNames -> BOOLEAN]
  /\ config \in [primaryProvider : ConfigNames, fallbackProvider : ConfigNames]
  /\ transporter = configured["smtp"]
  /\ smtpVerify = (IF configured["smtp"] THEN "pending" ELSE "none")
  /\ providerCall = NoProviderCall
  /\ sendPc = [c \in Calls |-> "idle"]
  /\ attempts = [c \in Calls |-> <<>>]
  /\ sendResult = [c \in Calls |-> NoResult]


(***************************************************************************)
(* Session tokens (jsonwebtoken) and the token validator (validateToken).  *)
(***************************************************************************)
\* process.env.JWT_SECRET || "your-secret-key-change-this": one value for
\* the process, read alike by the login handlers and by validateToken
JWT_SECRET == "your-secret-key-change-this"

\* expiresIn: "7d"; the model's clock counts days
TokenTTL == 7

\* the clock runs from day 0 to day MaxTime
MaxTime == 8

Times == 0..MaxTime

\* JavaScript null
Null == "null"

ClaimFields == {"userId", "email", "partnerId", "role", "plan"}

\* JSON.stringify of the payload object: a property whose value is
\* undefined is not written
JsonObject(payload) ==
  [f \in {g \in DOMAIN payload : payload[g] # Undefined} |-> payload[f]]

\* a bug jwt.sign does not have: the expiry is not set from expiresIn
JwtSign_NoExpiry(payload, secret, at) ==
  [kind |-> "jwt", payload |-> JsonObject(payload), iat |-> at,
   exp |-> at, hasNbf |-> FALSE, nbf |-> at, key |-> secret]

\* jwt.sign(payload, secret, {expiresIn: "7d"}) called on day `at`: the
\* payload with iat and exp added, signed with `secret`
JwtSign(payload, secret, at) ==
  [kind |-> "jwt", payload |-> JsonObject(payload), iat |-> at,
   exp |-> at + TokenTTL, hasNbf |-> FALSE, nbf |-> at, key |-> secret]

\* a string that is no JSON web token
GarbageToken ==
  [kind |-> "garbage", payload |-> <<>>, iat |-> 0, exp |-> 0,
   hasNbf |-> FALSE, nbf |-> 0, key |-> "none"]

\* the object jwt.verify returns: the payload with its iat and exp
Decoded(token) ==
  [f \in DOMAIN token.payload \cup {"iat", "exp"} |->
     IF f = "iat" THEN token.iat
     ELSE IF f = "exp" THEN token.exp
     ELSE token.payload[f]]

\* a verification that checks the expiry before the signature
JwtVerify_ExpiryFirst(token, secret, t) ==
  IF token.kind # "jwt"
  THEN [outcome |-> "JsonWebTokenError", payload |-> <<>>]
  ELSE IF t >= token.exp
  THEN [outcome |-> "TokenExpiredError", payload |-> <<>>]
  ELSE IF token.key # secret
  THEN [outcome |-> "JsonWebTokenError", payload |-> <<>>]
  ELSE IF token.hasNbf /\ token.nbf > t
  THEN [outcome |-> "NotBeforeError", payload |-> <<>>]
  ELSE [outcome |-> "ok", payload |-> Decoded(token)]

\* a verification that takes the day of expiry as still valid
JwtVerify_LateExpiry(token, secret, t) ==
  IF token.kind # "jwt"
  THEN [outcome |-> "JsonWebTokenError", payload |-> <<>>]
  ELSE IF token.key # secret
  THEN [outcome |-> "JsonWebTokenError", payload |-> <<>>]
  ELSE IF token.hasNbf /\ token.nbf > t
  THEN [outcome |-> "NotBeforeError", payload |-> <<>>]
  ELSE IF t > token.exp
  THEN [outcome |-> "TokenExpiredError", payload |-> <<>>]
  ELSE [outcome |-> "ok", payload |-> Decoded(token)]

\* jwt.verify(token, secret) on day t: the shape of the token, then its
\* signature, then nbf, then exp; the name of the error thrown, or "ok"
JwtVerify(token, secret, t) ==
  IF token.kind # "jwt"
  THEN [outcome |-> "JsonWebTokenError", payload |-> <<>>]
  ELSE IF token.key # secret
  THEN [outcome |-> "JsonWebTokenError", payload |-> <<>>]
  ELSE IF token.hasNbf /\ token.nbf > t
  THEN [outcome |-> "NotBeforeError", payload |-> <<>>]
  ELSE IF t >= token.exp
  THEN [outcome |-> "TokenExpiredError", payload |-> <<>>]
  ELSE [outcome |-> "ok", payload |-> Decoded(token)]

\* the response of a failed validation
NoResponse == [status |-> 0, success |-> FALSE, error |-> Undefined]

AuthFailure_Forbidden(error, message) ==
  [success |-> FALSE, user |-> <<>>, error |-> error,
   response |-> [status |-> 403, success |-> FALSE, error |-> message]]

\* {success: false, error, response: NextResponse.json({success: false,
\* error: message}, {status: 401})}
AuthFailure(error, message) ==
  [success |-> FALSE, user |-> <<>>, error |-> error,
   response |-> [status |-> 401, success |-> FALSE, error |-> message]]

\* request.headers.get("authorization"): absent, or the header's text as
\* its 7-character scheme prefix followed by what comes after it
NoHeader == [present |-> FALSE, text |-> <<>>]

HeaderOf(text) == [present |-> TRUE, text |-> text]

BearerHeader(token) == HeaderOf(<<"Bearer ", token>>)

StartsWithBearer_AnyCase(text) ==
  Len(text) >= 1 /\ text[1] \in {"Bearer ", "bearer "}

\* authHeader.startsWith("Bearer ")
StartsWithBearer(text) == Len(text) >= 1 /\ text[1] = "Bearer "

\* authHeader.substring(7)
Substring7(text) == Tail(text)

\* a validation that looks the token's user up and wants it approved
ValidateToken_AskingStore(header, t) ==
  IF /\ header.present
     /\ Len(header.text) = 2
     /\ header.text[1] = "Bearer "
     /\ JwtVerify(header.text[2], JWT_SECRET, t).outcome = "ok"
     /\ "u1" \in DOMAIN users
     /\ users["u1"].status = "approved"
  THEN [success |-> TRUE, user |-> Decoded(header.text[2]),
        error |-> Undefined, response |-> NoResponse]
  ELSE AuthFailure("Token expired", "Token has expired. Please login again.")

\* validateToken(request) on day t
ValidateToken(header, t) ==
  IF ~header.present \/ header.text = <<>>
  THEN AuthFailure("Missing authorization token",
         "Missing authorization token. Please include 'Authorization: Bearer <token>' header.")
  ELSE IF ~StartsWithBearer(header.text)
  THEN AuthFailure("Invalid authorization format",
         "Invalid authorization format. Use 'Authorization: Bearer <token>'.")
  ELSE LET token == Substring7(header.text) IN
    IF token = <<>>
    THEN AuthFailure("Empty token", "Authorization token is empty.")
    ELSE LET v == JwtVerify(token[1], JWT_SECRET, t) IN
      IF v.outcome = "ok"
      THEN [success |-> TRUE, user |-> v.payload, error |-> Undefined,
            response |-> NoResponse]
      ELSE IF v.outcome = "TokenExpiredError"
      THEN AuthFailure("Token expired",
             "Token has expired. Please login again.")
      ELSE IF v.outcome = "JsonWebTokenError"
      THEN AuthFailure("Invalid token",
             "Invalid token. Please login again.")
      ELSE AuthFailure("Authentication failed",
             "Authentication failed. Please login again.")

\* the payloads of the tokens a client may hold
SamplePayloads ==
  {[userId |-> "u1", email |-> "u1@x.io", partnerId |-> pid,
    role |-> "user", plan |-> "demo"] : pid \in {"p1", Null}}

\* a token that carries a not-before claim
WithNbf(token, day) == [token EXCEPT !.hasNbf = TRUE, !.nbf = day]

\* the tokens a client can present on day t: tokens signed on some earlier
\* day with the service's secret or with another one, with or without a
\* not-before claim, and strings that are no token
PresentableTokens(t) ==
  LET signed == {JwtSign(p, k, i) :
                   p \in SamplePayloads,
                   k \in {JWT_SECRET, "another-secret"},
                   i \in 0..t}
  IN signed
     \cup {WithNbf(tok, tok.iat + 1) : tok \in signed}
     \cup {WithNbf(tok, tok.exp + 1) : tok \in signed}
     \cup {GarbageToken}

PresentableHeaders(t) ==
  {NoHeader, HeaderOf(<<>>), HeaderOf(<<"Bearer ">>)}
  \cup {HeaderOf(<<scheme, tok>>) :
          scheme \in {"Bearer ", "bearer ", "Basic "},
          tok \in PresentableTokens(t)}

(***************************************************************************)
(* The user store (the User model) and the two login handlers.             *)
(***************************************************************************)
\* the documents of the collection: two partners and one user; what the
\* approval workflow and the signup flow decide for the user is open
PartnerDoc(id) ==
  [id |-> id, name |-> id, email |-> id \o "@x.io", password |-> "pw-" \o id,
   role |-> "partner", plan |-> "starter", partnerId |-> Undefined,
   status |-> "none", apiKey |-> Undefined]

UserDoc(partnerId, status, apiKey) ==
  [id |-> "u1", name |-> "u1", email |-> "u1@x.io", password |-> "pw-u1",
   role |-> "user", plan |-> "demo", partnerId |-> partnerId,
   status |-> status, apiKey |-> apiKey]

ApiAccessStatuses == {"none", "pending", "approved", "rejected"}

\* a partnerId may name a partner, or a document that no longer exists
PartnerRefs == {Undefined, "p1", "p2", "gone"}

\* let cached = global.mongoose || {conn: null, promise: null}
NotConnected == [conn |-> FALSE, promise |-> FALSE]

\* cached after an attempt resolved: the promise stays, conn is set
Connected == [conn |-> TRUE, promise |-> TRUE]

\* the handlers that call connectDB
Callers == {"h1", "h2", "h3"}

\* a handler that is not in a connectDB call
NoCall == [pc |-> "idle", awaits |-> 0]

\* no connectDB call has been made
NobodyConnecting ==
  /\ connections = <<>>
  /\ callers = [c \in Callers |-> NoCall]
  /\ tasks = <<>>

InitStore ==
  /\ cached = NotConnected
  /\ NobodyConnecting
  /\ \E pid \in PartnerRefs, st \in ApiAccessStatuses, key \in {Undefined, "key1"} :
       users = [id \in {"p1", "p2", "u1"} |->
                  IF id = "u1" THEN UserDoc(pid, st, key) ELSE PartnerDoc(id)]

\* String.prototype.toLowerCase on the strings of the model
ToLowerCase(str) ==
  CASE str = "U1@X.IO" -> "u1@x.io"
    [] str = "P1@X.IO" -> "p1@x.io"
    [] OTHER -> str

\* a lookup that looks at the email alone
FindOne_EmailOnly(filter) ==
  LET found == {id \in DOMAIN users : users[id].email = filter.email}
  IN IF found = {} THEN <<>> ELSE <<users[CHOOSE id \in found : TRUE]>>

\* User.findOne(filter): the documents that match, as a sequence of at
\* most one (email is unique)
FindOne(filter) ==
  LET found == {id \in DOMAIN users :
                  \A field \in DOMAIN filter : users[id][field] = filter[field]}
  IN IF found = {} THEN <<>> ELSE <<users[CHOOSE id \in found : TRUE]>>

\* User.findById(id)
FindById(id) == IF id \in DOMAIN users THEN <<users[id]>> ELSE <<>>

\* a comparison that accepts every password
ComparePassword_Any(user, candidate) == TRUE

\* user.comparePassword(candidate): bcrypt.compare against the stored hash
ComparePassword(user, candidate) == candidate = user.password

\* the body of a login request; a field the client left out is ""
LoginRequest(username, password, partner, apiKey) ==
  [username |-> username, password |-> password, partner |-> partner,
   apiKey |-> apiKey]

\* NextResponse.json of a failure
LoginFailure(status, error) ==
  [status |-> status, success |-> FALSE, error |-> error,
   apiAccessStatus |-> Undefined, token |-> <<>>, user |-> <<>>]

\* a 403 that does not tell the status
LoginForbidden_Silent(user) ==
  LoginFailure(403, "API access not approved. Please request API access first.")

LoginForbidden(user) ==
  [LoginFailure(403, "API access not approved. Please request API access first.")
     EXCEPT !.apiAccessStatus = user.status]

LoginSuccess(token, user, partnerInfo) ==
  [status |-> 200, success |-> TRUE, error |-> Undefined,
   apiAccessStatus |-> Undefined, token |-> <<token>>,
   user |-> <<[id |-> user.id, name |-> user.name, email |-> user.email,
               plan |-> user.plan, role |-> user.role,
               partner |-> partnerInfo]>>]

PartnerInfo(partnerUser) ==
  <<[id |-> partnerUser.id, name |-> partnerUser.name,
     email |-> partnerUser.email]>>

\* what a handler ends with: its response, the claims object it handed to
\* jwt.sign when it signed a token, and the operations it awaited or called
\* on the way, in order
Answer(response, claims) ==
  [response |-> response, claims |-> claims, ops |-> <<>>]

After(ops, answer) == [answer EXCEPT !.ops = ops]

\* a 500 that passes the error's message on
InternalError_Detailed ==
  Answer(LoginFailure(500, "MongoNetworkError: connect ECONNREFUSED"), <<>>)

InternalError == Answer(LoginFailure(500, "Internal server error"), <<>>)

\* a JSON number where a string is expected: it is truthy and has none of
\* the methods of a string
NumberValue == "<number>"

IsString(value) == value # NumberValue

\* await connectDB() taken alone: it fails only when no connection is
\* cached and the attempt it starts or joins is rejected
ConnectDBFails(fault) == ~cached.conn /\ fault = "connectDB"

\* cached after await connectDB(): the connection is kept, a failed
\* attempt is cleared
ConnectDB(fault) ==
  IF cached.conn THEN cached
  ELSE IF fault = "connectDB" THEN NotConnected
  ELSE Connected

\* a bug the handler does not have: the user's own partnerId is signed
PartnerClaims_OwnId(user, partnerUser) ==
  [userId |-> user.id, email |-> user.email, partnerId |-> Null,
   role |-> user.role, plan |-> user.plan]

\* partner mode, lines 86-92: the claims of the token
PartnerClaims(user, partnerUser) ==
  [userId |-> user.id, email |-> user.email, partnerId |-> partnerUser.id,
   role |-> user.role, plan |-> user.plan]

\* claims that carry a partner only when one was resolved
ApiKeyClaims_Resolved(user) ==
  [userId |-> user.id, email |-> user.email,
   partnerId |-> IF user.partnerId \in DOMAIN users THEN user.partnerId
                 ELSE Null,
   role |-> user.role, plan |-> user.plan]

\* API-key mode, lines 137-143: the claims of the token
ApiKeyClaims(user) ==
  [userId |-> user.id, email |-> user.email,
   partnerId |-> IF user.partnerId # Undefined THEN user.partnerId ELSE Null,
   role |-> user.role, plan |-> user.plan]

\* the store operations a request can find failing
PartnerFaults == {"none", "connectDB", "json", "findPartner", "findUser"}

ApiKeyFaults == {"none", "connectDB", "json", "findUser", "findById"}

\* POST /v1/auth/login, partner mode, on day t
PartnerLogin(req, fault, t) ==
  IF ConnectDBFails(fault) THEN After(<<"connectDB">>, InternalError)
  ELSE IF fault = "json" THEN After(<<"connectDB", "json">>, InternalError)
  ELSE IF req.username = "" \/ req.password = "" \/ req.partner = ""
  THEN After(<<"connectDB", "json">>,
             Answer(LoginFailure(400,
                      "Please provide username, password, and partner"), <<>>))
  ELSE IF ~IsString(req.partner)
  THEN After(<<"connectDB", "json">>, InternalError)
  ELSE IF fault = "findPartner"
  THEN After(<<"connectDB", "json", "findOne">>, InternalError)
  ELSE LET partnerUser == FindOne([email |-> ToLowerCase(req.partner),
                                     role |-> "partner"])
  IN IF partnerUser = <<>>
     THEN After(<<"connectDB", "json", "findOne">>,
                Answer(LoginFailure(401, "Invalid partner"), <<>>))
     ELSE IF ~IsString(req.username)
     THEN After(<<"connectDB", "json", "findOne">>, InternalError)
     ELSE IF fault = "findUser"
     THEN After(<<"connectDB", "json", "findOne", "findOne">>, InternalError)
     ELSE LET user == FindOne([email |-> ToLowerCase(req.username),
                               partnerId |-> partnerUser[1].id])
     IN IF user = <<>>
        THEN After(<<"connectDB", "json", "findOne", "findOne">>,
                   Answer(LoginFailure(401,
                     "Invalid credentials or you don't belong to this partner"),
                     <<>>))
        ELSE IF ~ComparePassword(user[1], req.password)
        THEN After(<<"connectDB", "json", "findOne", "findOne",
                     "comparePassword">>,
                   Answer(LoginFailure(401, "Invalid credentials"), <<>>))
        ELSE IF user[1].status # "approved"
        THEN After(<<"connectDB", "json", "findOne", "findOne",
                     "comparePassword", "status">>,
                   Answer(LoginForbidden(user[1]), <<>>))
        ELSE LET claims == PartnerClaims(user[1], partnerUser[1])
                 token  == JwtSign(claims, JWT_SECRET, t)
             IN After(<<"connectDB", "json", "findOne", "findOne",
                        "comparePassword", "status", "jwt.sign">>,
                      Answer(LoginSuccess(token, user[1],
                                          PartnerInfo(partnerUser[1])),
                             <<claims>>))

\* a handler that looks at the approval before it verifies the password
ApiKeyLogin_StatusFirst(req, fault, t) ==
  LET user == FindOne([email |-> ToLowerCase(req.username)])
  IN IF user = <<>>
     THEN After(<<"connectDB", "json", "findOne">>,
                Answer(LoginFailure(401, "Invalid credentials"), <<>>))
     ELSE IF user[1].status # "approved"
     THEN After(<<"connectDB", "json", "findOne", "status">>,
                Answer(LoginForbidden(user[1]), <<>>))
     ELSE After(<<"connectDB", "json", "findOne", "status", "comparePassword">>,
                Answer(LoginFailure(401, "Invalid credentials"), <<>>))

\* POST /v1/auth/login, API-key mode, on day t
ApiKeyLogin(req, fault, t) ==
  IF ConnectDBFails(fault) THEN After(<<"connectDB">>, InternalError)
  ELSE IF fault = "json" THEN After(<<"connectDB", "json">>, InternalError)
  ELSE IF ~IsString(req.username)
  THEN After(<<"connectDB", "json">>, InternalError)
  ELSE IF req.username = "" \/ req.password = "" \/ req.apiKey = ""
  THEN After(<<"connectDB", "json">>,
             Answer(LoginFailure(400,
                      "Please provide username, password, and apiKey"), <<>>))
  ELSE IF fault = "findUser"
  THEN After(<<"connectDB", "json", "findOne">>, InternalError)
  ELSE LET user == FindOne([email |-> ToLowerCase(req.username)])
  IN IF user = <<>>
     THEN After(<<"connectDB", "json", "findOne">>,
                Answer(LoginFailure(401, "Invalid credentials"), <<>>))
     ELSE IF ~ComparePassword(user[1], req.password)
     THEN After(<<"connectDB", "json", "findOne", "comparePassword">>,
                Answer(LoginFailure(401, "Invalid credentials"), <<>>))
     ELSE IF user[1].status # "approved"
     THEN After(<<"connectDB", "json", "findOne", "comparePassword", "status">>,
                Answer(LoginForbidden(user[1]), <<>>))
     ELSE IF user[1].apiKey = Undefined \/ user[1].apiKey # req.apiKey
     THEN After(<<"connectDB", "json", "findOne", "comparePassword", "status",
                  "apiKey">>,
                Answer(LoginFailure(401, "Invalid API key"), <<>>))
     ELSE IF user[1].partnerId # Undefined /\ fault = "findById"
     THEN After(<<"connectDB", "json", "findOne", "comparePassword", "status",
                  "apiKey", "findById">>, InternalError)
     ELSE LET partnerUser == IF user[1].partnerId # Undefined
                             THEN FindById(user[1].partnerId) ELSE <<>>
              partnerInfo == IF partnerUser # <<>>
                             THEN PartnerInfo(partnerUser[1]) ELSE <<>>
              claims == ApiKeyClaims(user[1])
              token  == JwtSign(claims, JWT_SECRET, t)
          IN After(<<"connectDB", "json", "findOne", "comparePassword",
                     "status", "apiKey">>
                     \o (IF user[1].partnerId # Undefined
                         THEN <<"findById">> ELSE <<>>)
                     \o <<"jwt.sign">>,
                   Answer(LoginSuccess(token, user[1], partnerInfo), <<claims>>))

\* the client keeps the token of a successful login
Holding(answer) ==
  IF answer.response.status = 200
  THEN <<[token |-> answer.response.token[1], claims |-> answer.claims[1]]>>
  ELSE held

\* what is kept of an answered login: the request, what went wrong in the
\* store, whether a connection was cached when it arrived, and the answer
Answered(mode, req, fault, answer) ==
  [mode |-> mode, request |-> req, fault |-> fault,
   connected |-> cached.conn, response |-> answer.response,
   claims |-> answer.claims, ops |-> answer.ops]

\* a partner-mode login request is answered
LoginPartner(req, fault) ==
  LET answer == PartnerLogin(req, fault, now)
  IN /\ fault = "connectDB" => ~cached.conn
     /\ loginResp' = <<Answered("partner", req, fault, answer)>>
     /\ held' = Holding(answer)
     /\ authResult' = <<>>
     /\ cached' = ConnectDB(fault)
     /\ UNCHANGED <<routerVars, now, users, connVars, msgVars>>

\* an API-key-mode login request is answered
LoginApiKey(req, fault) ==
  LET answer == ApiKeyLogin(req, fault, now)
  IN /\ fault = "connectDB" => ~cached.conn
     /\ loginResp' = <<Answered("apiKey", req, fault, answer)>>
     /\ held' = Holding(answer)
     /\ authResult' = <<>>
     /\ cached' = ConnectDB(fault)
     /\ UNCHANGED <<routerVars, now, users, connVars, msgVars>>

(***************************************************************************)
(* connectDB under concurrent callers.  A call runs to its `await          *)
(* cached.promise` in one piece and resumes as a job once the promise is   *)
(* settled; jobs run one at a time, in the order they were queued.  The    *)
(* promise in cached.promise, when there is one, is that of the attempt    *)
(* started last: it is only ever set to a new attempt or to null.          *)
(***************************************************************************)
\* mongoose.connect is started at most this often
MaxConnects == 3

\* a connection attempt: pending, resolved or rejected; the callers that
\* await it, in the order they began to; whether an attempt had already
\* resolved when it was started
Connection(afterSuccess) ==
  [state |-> "pending", waiters |-> <<>>, afterSuccess |-> afterSuccess]

Job(run, caller) == [run |-> run, caller |-> caller]

InFlightConnections ==
  {i \in 1..Len(connections) : connections[i].state = "pending"}

\* a handler is about to call connectDB
CallerArrives(c) ==
  /\ callers[c].pc = "idle"
  /\ callers' = [callers EXCEPT ![c].pc = "called"]
  /\ tasks' = Append(tasks, Job("call", c))
  /\ UNCHANGED <<routerVars, now, users, cached, connections, sessionVars,
                 msgVars>>

\* connectDB, lines 41-63: return the cached connection, or start an
\* attempt when there is no promise, and await the promise
ConnectDBCall(c) ==
  /\ tasks # <<>> /\ Head(tasks) = Job("call", c)
  /\ IF cached.conn
     THEN /\ callers' = [callers EXCEPT ![c].pc = "returned"]
          /\ tasks' = Tail(tasks)
          /\ UNCHANGED <<cached, connections>>
     ELSE LET started ==
                IF cached.promise THEN connections
                ELSE Append(connections,
                       Connection(\E i \in 1..Len(connections) :
                                    connections[i].state = "resolved"))
              p == Len(started)
          IN /\ cached.promise \/ Len(connections) < MaxConnects
             /\ connections' = [started EXCEPT ![p].waiters = Append(@, c)]
             /\ cached' = [cached EXCEPT !.promise = TRUE]
             /\ callers' = [callers EXCEPT ![c] = [pc |-> "awaiting", awaits |-> p]]
             /\ tasks' = IF started[p].state = "pending" THEN Tail(tasks)
                         ELSE Append(Tail(tasks), Job("resume", c))
  /\ UNCHANGED <<routerVars, now, users, sessionVars, msgVars>>

\* mongoose.connect(...).then(...) settles: the callers awaiting it are
\* queued to resume
ConnectSettles(p, state) ==
  /\ p \in InFlightConnections
  /\ connections' = [connections EXCEPT ![p].state = state]
  /\ tasks' = tasks \o [k \in 1..Len(connections[p].waiters) |->
                          Job("resume", connections[p].waiters[k])]
  /\ UNCHANGED <<routerVars, now, users, cached, callers, sessionVars, msgVars>>

\* connectDB, lines 63-74: the await returns and cached.conn is set, or it
\* throws and the catch clears cached.promise and rethrows
ConnectDBResume(c) ==
  /\ tasks # <<>> /\ Head(tasks) = Job("resume", c)
  /\ tasks' = Tail(tasks)
  /\ IF connections[callers[c].awaits].state = "resolved"
     THEN /\ cached' = [cached EXCEPT !.conn = TRUE]
          /\ callers' = [callers EXCEPT ![c].pc = "returned"]
     ELSE /\ cached' = [cached EXCEPT !.promise = FALSE]
          /\ callers' = [callers EXCEPT ![c].pc = "threw"]
  /\ UNCHANGED <<routerVars, now, users, connections, sessionVars, msgVars>>

\* the handler that called is done with its request
CallerLeaves(c) ==
  /\ callers[c].pc \in {"returned", "threw"}
  /\ callers' = [callers EXCEPT ![c] = NoCall]
  /\ UNCHANGED <<routerVars, now, users, cached, connections, tasks,
                 sessionVars, msgVars>>

(***************************************************************************)
(* The clock and the calls of validateToken.                               *)
(***************************************************************************)
\* a day passes; the answers of the day before are no longer the last ones
Tick ==
  /\ now < MaxTime
  /\ now' = now + 1
  /\ loginResp' = <<>>
  /\ authResult' = <<>>
  /\ UNCHANGED <<routerVars, storeVars, held, msgVars>>

\* validateToken is called with a header
Validate(header) ==
  /\ authResult' = <<[header |-> header, at |-> now,
                      result |-> ValidateToken(header, now)]>>
  /\ loginResp' = <<>>
  /\ UNCHANGED <<routerVars, now, storeVars, held, msgVars>>

\* the client presents the token it holds
ValidateHeld ==
  /\ held # <<>>
  /\ Validate(BearerHeader(held[1].token))

\* the requests of a client that knows the user's credentials
SessionRequests ==
  {LoginRequest(u, "pw-u1", p, k) :
     u \in {"u1@x.io", "U1@X.IO"}, p \in {"p1@x.io", "p2@x.io"},
     k \in {"key1", "key2"}}

\* one login request at a time: the handlers share nothing but the cached
\* connection, so the next request is taken once the last one was answered
\* and its answer looked at
PartnerLoginRequest(req, fault) ==
  /\ loginResp = <<>>
  /\ LoginPartner(req, fault)

ApiKeyLoginRequest(req, fault) ==
  /\ loginResp = <<>>
  /\ LoginApiKey(req, fault)

LoginDone ==
  /\ loginResp # <<>>
  /\ loginResp' = <<>>
  /\ held' = <<>>
  /\ UNCHANGED <<routerVars, now, storeVars, authResult, msgVars>>

\* what any client may send to a login endpoint: each field left out, right,
\* wrong, in another case, or a number
PartnerRequests ==
  {LoginRequest(u, pw, p, "") :
     u \in {"", "u1@x.io", "U1@X.IO", "nobody@x.io", NumberValue},
     pw \in {"", "pw-u1", "wrong"},
     p \in {"", "p1@x.io", "P1@X.IO", "p2@x.io", "u1@x.io", "nobody@x.io",
            NumberValue}}

ApiKeyRequests ==
  {LoginRequest(u, pw, "", k) :
     u \in {"", "u1@x.io", "U1@X.IO", "nobody@x.io", NumberValue},
     pw \in {"", "pw-u1", "wrong", NumberValue},
     k \in {"", "key1", "key2", NumberValue}}

(***************************************************************************)
(* The messaging endpoints: POST /v1/messaging/send-email and send-sms.    *)
(* A handler keeps its state in locals, and what the handlers share is     *)
(* fixed at start-up (the email service, the environment) or set once (the *)
(* Twilio client), so the model follows one request at a time.             *)
(***************************************************************************)
\* messageText.length > 1600
SmsMaxLength == 1600

\* a text property of a JSON body: a string of some length, a number (of
\* so many digits) or absent
Text(type, len) == [type |-> type, len |-> len]

\* the `to` property: a string as its characters, a number as its digits,
\* or absent
To(type, chars) == [type |-> type, chars |-> chars]

AbsentText == Text("absent", 0)

AbsentTo == To("absent", <<>>)

\* !value for a text and for `to`
FalsyText(f) == f.type = "absent" \/ (f.type = "string" /\ f.len = 0)

FalsyTo(f) == f.type = "absent" \/ (f.type = "string" /\ f.chars = <<>>)

Body(businessGroup, to, subject, body) ==
  [businessGroup |-> businessGroup, to |-> to, subject |-> subject,
   body |-> body]

NoBody == Body(AbsentText, AbsentTo, AbsentText, AbsentText)

\* \s and @ in [^\s@]
IsSpace(ch) == ch \in {" ", "\t"}

PlainChar(ch) == ~IsSpace(ch) /\ ch # "@"

AllPlain(chars, from, to) ==
  from <= to /\ \A k \in from..to : PlainChar(chars[k])

\* a pattern that only asks for an @
EmailRegexTest_AtOnly(chars) == \E i \in 1..Len(chars) : chars[i] = "@"

\* /^[^\s@]+@[^\s@]+\.[^\s@]+$/.test(to)
EmailRegexTest(chars) ==
  \E i, j \in 1..Len(chars) :
    /\ i < j
    /\ chars[i] = "@"
    /\ chars[j] = "."
    /\ AllPlain(chars, 1, i - 1)
    /\ AllPlain(chars, i + 1, j - 1)
    /\ AllPlain(chars, j + 1, Len(chars))

IsDigit(ch) == ch \in {"0", "1", "2", "3", "4", "5", "6", "7", "8", "9"}

\* to.replace(/[\s()-]/g, "")
StripPhone(chars) ==
  SelectSeq(chars, LAMBDA ch : ~IsSpace(ch) /\ ch \notin {"(", ")", "-"})

\* /^\+?[1-9]\d{1,14}$/.test(stripped)
PhoneRegexTest(chars) ==
  LET digits == IF chars # <<>> /\ chars[1] = "+" THEN Tail(chars) ELSE chars
  IN /\ Len(digits) >= 2
     /\ Len(digits) <= 15
     /\ digits[1] \in {"1", "2", "3", "4", "5", "6", "7", "8", "9"}
     /\ \A k \in 2..Len(digits) : IsDigit(digits[k])

\* a normalisation that strips and adds no plus sign
FormatPhone_NoPlus(chars) == StripPhone(chars)

\* normalizedTo.startsWith("+") ? normalizedTo : `+${normalizedTo}`
FormatPhone(chars) ==
  LET normalizedTo == StripPhone(chars)
  IN IF normalizedTo # <<>> /\ normalizedTo[1] = "+" THEN normalizedTo
     ELSE <<"+">> \o normalizedTo

\* a length that counts the body alone
MessageTextLength_BodyOnly(businessGroup, body) == body.len

\* `[${businessGroup}] ${smsBody}`.length
MessageTextLength(businessGroup, body) == 1 + businessGroup.len + 2 + body.len

\* EmailService.getConfiguredProviders()
GetConfiguredProviders == {n \in ProviderNames : configured[n]}

\* an address that always resolves
GetDefaultFromEmail_Always == <<"resend">>

\* EmailService.getDefaultFromEmail(): the provider whose address is taken,
\* as a sequence of at most one
GetDefaultFromEmail ==
  IF config.primaryProvider \in ProviderNames
     /\ config.primaryProvider \in fromEmails
  THEN <<config.primaryProvider>>
  ELSE IF "resend" \in fromEmails THEN <<"resend">>
  ELSE IF "sendgrid" \in fromEmails THEN <<"sendgrid">>
  ELSE IF "smtp" \in fromEmails THEN <<"smtp">>
  ELSE <<>>

\* the body of a response
Response(status, success, error, data) ==
  [status |-> status, success |-> success, error |-> error, data |-> data]

NoData == [provider |-> Undefined, messageId |-> Undefined, to |-> <<>>]

\* an error body that claims success
ErrorResponse_Succeeding(status, error) == Response(status, TRUE, error, NoData)

ErrorResponse(status, error) == Response(status, FALSE, error, NoData)

\* the request slot when no request is being handled; a request is kept
\* with the day it arrived
NoRequest ==
  [kind |-> "none", pc |-> "idle", at |-> 0, header |-> NoHeader,
   authOk |-> FALSE,
   body |-> NoBody, log |-> <<>>, smsTo |-> <<>>, smsOutcome |-> "none",
   response |-> ErrorResponse(0, Undefined)]

\* a handler that parses the body before it looks at the token
StartRequest_ParseFirst(kind, header) ==
  /\ request.pc = "idle"
  /\ request' = [NoRequest EXCEPT
               !.kind = kind, !.at = now, !.header = header, !.pc = "parsing",
               !.authOk = ValidateToken(header, now).success,
               !.log = <<"validateToken">>]

\* lines 192-203 (send-email) and 33-47 (send-sms): the handler calls
\* validateToken and returns its response when it failed
StartRequest(kind, header) ==
  /\ request.pc = "idle"
  /\ LET authResultOfRequest == ValidateToken(header, now)
     IN request' =
          IF ~authResultOfRequest.success
          THEN [NoRequest EXCEPT
                  !.kind = kind, !.at = now, !.header = header, !.pc = "done",
                  !.log = <<"validateToken">>,
                  !.response =
                    ErrorResponse(authResultOfRequest.response.status,
                                  authResultOfRequest.response.error)]
          ELSE [NoRequest EXCEPT
                  !.kind = kind, !.at = now, !.header = header,
                  !.pc = "parsing", !.authOk = TRUE, !.log = <<"validateToken">>]

\* the request ends with a response
Respond(log, body, response) ==
  request' = [request EXCEPT !.pc = "done", !.log = log, !.body = body,
                     !.response = response]

\* POST /v1/messaging/send-email arrives with some Authorization header
SendEmailStart(header) ==
  /\ StartRequest("email", header)
  /\ UNCHANGED <<routerVars, now, storeVars, sessionVars, fromEmails,
                 twilioEnv, twilioInitialized, twilioClient>>

\* send-email, lines 205-292: request.json() resolves or rejects, the
\* validations, the configuration check, the call of emailService.send
SendEmailParse(parsed, body) ==
  /\ request.kind = "email" /\ request.pc = "parsing"
  /\ IF ~parsed
     THEN /\ Respond(request.log \o <<"json">>, NoBody,
                     ErrorResponse(500, "Unexpected end of JSON input"))
          /\ UNCHANGED routerVars
     ELSE IF body.subject.type = "number"
     THEN /\ Respond(request.log \o <<"json">>, body,
                     ErrorResponse(500, "subject?.substring is not a function"))
          /\ UNCHANGED routerVars
     ELSE IF \/ FalsyText(body.businessGroup) \/ FalsyTo(body.to)
             \/ FalsyText(body.subject) \/ FalsyText(body.body)
     THEN /\ Respond(request.log \o <<"json", "fields">>, body,
                     ErrorResponse(400,
                       "Please provide businessGroup, to, subject, and body"))
          /\ UNCHANGED routerVars
     ELSE IF ~EmailRegexTest(body.to.chars)
     THEN /\ Respond(request.log \o <<"json", "fields", "format">>, body,
                     ErrorResponse(400, "Invalid email address format"))
          /\ UNCHANGED routerVars
     ELSE IF GetConfiguredProviders = {} \/ GetDefaultFromEmail = <<>>
     THEN /\ Respond(request.log \o <<"json", "fields", "format", "config">>, body,
                     ErrorResponse(500,
                       "Email service is not configured. Please contact administrator."))
          /\ UNCHANGED routerVars
     ELSE IF body.body.type = "number"
     THEN /\ Respond(request.log \o <<"json", "fields", "format", "config">>, body,
                     ErrorResponse(500, "emailBody.replace is not a function"))
          /\ UNCHANGED routerVars
     ELSE /\ request' = [request EXCEPT
                       !.pc = "sending", !.body = body,
                       !.log = request.log \o
                                 <<"json", "fields", "format", "config", "send">>]
          /\ SendBegin(1)
  /\ UNCHANGED <<now, storeVars, sessionVars, fromEmails, twilioEnv,
                 twilioInitialized, twilioClient>>

\* send-email, lines 292-335: emailService.send has returned
SendEmailRespond ==
  /\ request.kind = "email" /\ request.pc = "sending"
  /\ sendPc[1] = "done"
  /\ IF ~sendResult[1].success
     THEN Respond(request.log, request.body,
                  ErrorResponse(500,
                    IF sendResult[1].error # Undefined THEN sendResult[1].error
                    ELSE "Failed to send email"))
     ELSE Respond(request.log, request.body,
                  Response(200, TRUE, Undefined,
                           [NoData EXCEPT !.provider = sendResult[1].provider,
                                          !.messageId = sendResult[1].messageId,
                                          !.to = request.body.to.chars]))
  /\ SendReturn(1)
  /\ UNCHANGED <<now, storeVars, sessionVars, fromEmails, twilioEnv,
                 twilioInitialized, twilioClient>>

\* POST /v1/messaging/send-sms arrives with some Authorization header
SendSmsStart(header) ==
  /\ StartRequest("sms", header)
  /\ UNCHANGED <<routerVars, now, storeVars, sessionVars, fromEmails,
                 twilioEnv, twilioInitialized, twilioClient>>

\* getTwilioClient(): the client after the call
GetTwilioClient ==
  IF twilioInitialized THEN twilioClient ELSE twilioEnv.creds = "valid"

\* send-sms, lines 49-146: request.json() resolves or rejects, the
\* validations, the lazy client, the length check, messages.create
SendSmsParse(parsed, body) ==
  /\ request.kind = "sms" /\ request.pc = "parsing"
  /\ IF ~parsed
     THEN /\ Respond(request.log \o <<"json">>, NoBody,
                     ErrorResponse(500, "Failed to send SMS"))
          /\ UNCHANGED <<twilioInitialized, twilioClient>>
     ELSE IF \/ FalsyText(body.businessGroup) \/ FalsyTo(body.to)
             \/ FalsyText(body.body)
     THEN /\ Respond(request.log \o <<"json", "fields">>, body,
                     ErrorResponse(400, "Please provide businessGroup, to, and body"))
          /\ UNCHANGED <<twilioInitialized, twilioClient>>
     ELSE IF body.to.type = "number"
     THEN /\ Respond(request.log \o <<"json", "fields">>, body,
                     ErrorResponse(500, "Failed to send SMS"))
          /\ UNCHANGED <<twilioInitialized, twilioClient>>
     ELSE IF ~PhoneRegexTest(StripPhone(body.to.chars))
     THEN /\ Respond(request.log \o <<"json", "fields", "format">>, body,
                     ErrorResponse(400,
                       "Invalid phone number format. Use E.164 format (e.g., +1234567890)"))
          /\ UNCHANGED <<twilioInitialized, twilioClient>>
     ELSE /\ twilioInitialized' = TRUE
          /\ twilioClient' = GetTwilioClient
          /\ IF ~GetTwilioClient \/ ~twilioEnv.phone
             THEN Respond(request.log \o <<"json", "fields", "format", "config">>, body,
                          ErrorResponse(500,
                            "SMS service is not configured. Please contact administrator."))
             ELSE IF MessageTextLength(body.businessGroup, body.body) > SmsMaxLength
             THEN Respond(request.log \o <<"json", "fields", "format", "config", "length">>,
                          body,
                          ErrorResponse(400,
                            "Message body is too long. Maximum length is 1600 characters."))
             ELSE request' = [request EXCEPT
                            !.pc = "sending", !.body = body,
                            !.smsTo = FormatPhone(body.to.chars),
                            !.log = request.log \o <<"json", "fields", "format",
                                                 "config", "length", "send">>]
  /\ UNCHANGED <<routerVars, now, storeVars, sessionVars, fromEmails, twilioEnv>>

\* what client.messages.create may answer: a message, an error with a
\* Twilio code, or an error without code
TwilioOutcomes == {"ok", "21211", "21408", "21610", "21614", "20003", "noCode"}

\* a catch block that knows no Twilio code
SmsErrorResponse_Uniform(outcome) == ErrorResponse(500, "Failed to send SMS")

\* send-sms, lines 177-227: the catch block's response
SmsErrorResponse(outcome) ==
  CASE outcome = "21211" -> ErrorResponse(400, "Invalid phone number")
    [] outcome = "21408" ->
         ErrorResponse(403, "Permission denied to send SMS to this number")
    [] outcome = "21610" ->
         ErrorResponse(400, "Phone number is not reachable or opted out")
    [] outcome = "21614" -> ErrorResponse(400, "Invalid phone number format")
    [] outcome = "20003" -> ErrorResponse(500, "twilio error message")
    [] OTHER -> ErrorResponse(500, "Failed to send SMS")

\* send-sms, lines 142-227: messages.create resolves or rejects; the
\* request keeps what the provider answered
SendSmsComplete(outcome) ==
  /\ request.kind = "sms" /\ request.pc = "sending"
  /\ request' = [request EXCEPT
       !.pc = "done",
       !.smsOutcome = outcome,
       !.response =
         IF outcome = "ok"
         THEN Response(200, TRUE, Undefined,
                       [NoData EXCEPT !.messageId = "message-sid",
                                      !.to = request.smsTo])
         ELSE SmsErrorResponse(outcome)]
  /\ UNCHANGED <<routerVars, now, storeVars, sessionVars, fromEmails,
                 twilioEnv, twilioInitialized, twilioClient>>

\* the response has gone out
RequestDone ==
  /\ request.pc = "done"
  /\ request' = NoRequest
  /\ UNCHANGED <<routerVars, now, storeVars, sessionVars, fromEmails,
                 twilioEnv, twilioInitialized, twilioClient>>

\* the tokens and headers the clients of the messaging endpoints present
\* a week after start-up: a token issued on day 0 has expired
MessagingPayload ==
  [userId |-> "u1", email |-> "u1@x.io", partnerId |-> "p1",
   role |-> "user", plan |-> "demo"]

MessagingHeaders ==
  {NoHeader,
   HeaderOf(<<"Bearer ">>),
   HeaderOf(<<"Basic ", JwtSign(MessagingPayload, JWT_SECRET, 1)>>),
   BearerHeader(JwtSign(MessagingPayload, JWT_SECRET, 0)),
   BearerHeader(JwtSign(MessagingPayload, JWT_SECRET, 1)),
   BearerHeader(JwtSign(MessagingPayload, "another-secret", 1)),
   BearerHeader(GarbageToken)}

\* n digits, the first of them d
Digits(d, n) == [k \in 1..n |-> IF k = 1 THEN d ELSE "0"]

GoodEmail == To("string", <<"a", "@", "b", ".", "c">>)

GoodPhone == To("string", <<"+", "1", "2", "3">>)

EmailBodies ==
  {Body(Text("string", 4), to, Text("string", 2), Text("string", 10)) :
     to \in {GoodEmail, AbsentTo, To("string", <<>>), To("number", <<"1", "2">>),
             To("string", <<"n", "o", "t", "-", "a", "n", "-",
                            "e", "m", "a", "i", "l">>),
             To("string", <<"a", "@", "b">>),
             To("string", <<"a", " ", "@", "b", ".", "c">>),
             To("string", <<"a", "@", "b", ".", "c", ".", "d">>)}}
  \cup {Body(bg, GoodEmail, Text("string", 2), Text("string", 10)) :
          bg \in {AbsentText, Text("string", 0), Text("number", 1)}}
  \cup {Body(Text("string", 4), to, subject, Text("string", 10)) :
          to \in {GoodEmail, To("string", <<"a", "@", "b">>)},
          subject \in {AbsentText, Text("string", 0), Text("number", 1)}}
  \cup {Body(Text("string", 4), GoodEmail, Text("string", 2), text) :
          text \in {AbsentText, Text("string", 0), Text("number", 1)}}

SmsBodies ==
  {Body(Text("string", 1), to, AbsentText, Text("string", 10)) :
     to \in {GoodPhone, AbsentTo, To("string", <<>>),
             To("number", Digits("1", 10)),
             To("string", Digits("1", 10)),
             To("string", <<"(", "1", "2", ")", " ", "3", "-", "4">>),
             To("string", <<"+", "0", "1", "2">>),
             To("string", <<"1">>),
             To("string", <<"1", "2", "a">>),
             To("string", <<"+">> \o Digits("1", 15)),
             To("string", Digits("1", 16))}}
  \cup {Body(bg, GoodPhone, AbsentText, Text("string", 10)) :
          bg \in {AbsentText, Text("string", 0), Text("number", 1)}}
  \cup {Body(Text("string", 1), GoodPhone, AbsentText, text) :
          text \in {AbsentText, Text("string", 0), Text("number", 3),
                    Text("string", SmsMaxLength - 5),
                    Text("string", SmsMaxLength - 4),
                    Text("string", SmsMaxLength - 3),
                    Text("string", SmsMaxLength)}}

(***************************************************************************)
(* Changes of the user record.  The collection belongs to the approval and *)
(* account flows outside this service, which only reads it.                *)
(***************************************************************************)
ApiKeys == {Undefined, "key1", "key2"}

\* apiAccess.status of the user is set (approved, rejected, requested anew)
SetApiAccessStatus(status) ==
  /\ "u1" \in DOMAIN users
  /\ users["u1"].status # status
  /\ users' = [users EXCEPT !["u1"].status = status]
  /\ UNCHANGED <<routerVars, now, cached, connVars, sessionVars, msgVars>>

\* apiAccess.apiKey of the user is issued, rotated or withdrawn
SetApiKey(key) ==
  /\ "u1" \in DOMAIN users
  /\ users["u1"].apiKey # key
  /\ users' = [users EXCEPT !["u1"].apiKey = key]
  /\ UNCHANGED <<routerVars, now, cached, connVars, sessionVars, msgVars>>

\* the user's document is deleted
RemoveUser ==
  /\ "u1" \in DOMAIN users
  /\ users' = [id \in DOMAIN users \ {"u1"} |-> users[id]]
  /\ UNCHANGED <<routerVars, now, cached, connVars, sessionVars, msgVars>>

\* the client sends a message with the token it holds
HeldSendEmail ==
  /\ held # <<>>
  /\ SendEmailStart(BearerHeader(held[1].token))

HeldSendSms ==
  /\ held # <<>>
  /\ SendSmsStart(BearerHeader(held[1].token))

\* the login of the user with its credentials as first issued
TokenRequest == LoginRequest("u1@x.io", "pw-u1", "p1@x.io", "key1")

(***************************************************************************)
(* Specifications.  Each one runs one part of the service and leaves the   *)
(* rest in its state after start-up.                                       *)
(***************************************************************************)
\* no provider credentials in the environment, the default selection
RouterAtRest ==
  /\ configured = [n \in ProviderNames |-> FALSE]
  /\ config = [primaryProvider |-> "resend", fallbackProvider |-> "sendgrid"]
  /\ transporter = FALSE
  /\ smtpVerify = "none"
  /\ providerCall = NoProviderCall
  /\ sendPc = [c \in Calls |-> "idle"]
  /\ attempts = [c \in Calls |-> <<>>]
  /\ sendResult = [c \in Calls |-> NoResult]

\* the user is approved, holds an API key and belongs to partner p1
StoreAtRest ==
  /\ cached = NotConnected
  /\ NobodyConnecting
  /\ users = [id \in {"p1", "p2", "u1"} |->
                IF id = "u1" THEN UserDoc("p1", "approved", "key1")
                ELSE PartnerDoc(id)]

\* nobody has logged in or presented a token
InitSession ==
  /\ now = 0
  /\ held = <<>>
  /\ loginResp = <<>>
  /\ authResult = <<>>

\* no sender address, no Twilio variable, no request
MessagingAtRest ==
  /\ fromEmails = {}
  /\ twilioEnv = [creds |-> "unset", phone |-> FALSE]
  /\ twilioInitialized = FALSE
  /\ twilioClient = FALSE
  /\ request = NoRequest

\* the environments of the messaging endpoints: any email configuration
\* with Twilio left out, or any Twilio configuration with email left out
InitMessaging ==
  /\ now = TokenTTL
  /\ held = <<>>
  /\ loginResp = <<>>
  /\ authResult = <<>>
  /\ twilioInitialized = FALSE
  /\ twilioClient = FALSE
  /\ request = NoRequest
  /\ \/ /\ InitRouter
        /\ fromEmails \in SUBSET ProviderNames
        /\ twilioEnv = [creds |-> "unset", phone |-> FALSE]
     \/ /\ RouterAtRest
        /\ fromEmails = {}
        /\ twilioEnv \in [creds : {"unset", "invalid", "valid"}, phone : BOOLEAN]

Init == InitRouter /\ InitStore /\ InitSession /\ MessagingAtRest

NextRouter ==
  \E c \in Calls :
    \/ SendCalled(c)
    \/ PrimaryCompletes(c)
    \/ FallbackCompletes(c)
    \/ SendReturned(c)

NextAuth ==
  \/ Tick
  \/ \E header \in PresentableHeaders(now) : Validate(header)

NextSession ==
  \/ Tick
  \/ \E req \in SessionRequests, fault \in {"none", "findUser"} :
       LoginPartner(req, fault)
  \/ \E req \in SessionRequests, fault \in {"none", "findById"} :
       LoginApiKey(req, fault)
  \/ ValidateHeld

\* the login endpoints under any request and any failure of the store
NextLogin ==
  \/ \E req \in PartnerRequests, fault \in PartnerFaults :
       PartnerLoginRequest(req, fault)
  \/ \E req \in ApiKeyRequests, fault \in ApiKeyFaults :
       ApiKeyLoginRequest(req, fault)
  \/ LoginDone

\* tokens in use while days pass and the user record changes; what the
\* request says beyond its header plays no part here, its body is one that
\* does not parse
NextToken ==
  \/ Tick
  \/ LoginApiKey(TokenRequest, "none")
  \/ LoginPartner(TokenRequest, "none")
  \/ \E status \in ApiAccessStatuses : SetApiAccessStatus(status)
  \/ \E key \in ApiKeys : SetApiKey(key)
  \/ RemoveUser
  \/ HeldSendEmail
  \/ HeldSendSms
  \/ SendEmailParse(FALSE, NoBody)
  \/ SendSmsParse(FALSE, NoBody)
  \/ RequestDone

NextMessaging ==
  \/ \E header \in MessagingHeaders : SendEmailStart(header)
  \/ \E parsed \in BOOLEAN, body \in EmailBodies : SendEmailParse(parsed, body)
  \/ PrimaryCompletes(1)
  \/ FallbackCompletes(1)
  \/ SendEmailRespond
  \/ \E header \in MessagingHeaders : SendSmsStart(header)
  \/ \E parsed \in BOOLEAN, body \in SmsBodies : SendSmsParse(parsed, body)
  \/ \E outcome \in TwilioOutcomes : SendSmsComplete(outcome)
  \/ RequestDone

\* the dispatch router under overlapping send calls
InitRouterOnly == InitRouter /\ StoreAtRest /\ InitSession /\ MessagingAtRest

SpecRouter == InitRouterOnly /\ [][NextRouter]_vars

\* the token validator over the headers a client can present
InitAuthOnly == RouterAtRest /\ StoreAtRest /\ InitSession /\ MessagingAtRest

SpecAuth == InitAuthOnly /\ [][NextAuth]_vars

\* logins, and the tokens they issue presented to the validator as days pass
InitSessionOnly == RouterAtRest /\ InitStore /\ InitSession /\ MessagingAtRest

SpecSession == InitSessionOnly /\ [][NextSession]_vars

\* the login endpoints over every store
InitLoginOnly == RouterAtRest /\ InitStore /\ InitSession /\ MessagingAtRest

SpecLogin == InitLoginOnly /\ [][NextLogin]_vars

\* issued tokens against the clock and the changing user record
InitTokenOnly == RouterAtRest /\ StoreAtRest /\ InitSession /\ MessagingAtRest

SpecToken == InitTokenOnly /\ [][NextToken]_vars

\* the providers' send called directly, SMTP's verification, and the router
NextProvider ==
  \/ \E name \in ProviderNames : ProviderSendBegin(name)
  \/ \E outcome \in {"ok", "401", "429", "apiError", "throwApiKey", "EAUTH",
                       "ETIMEDOUT"} : ProviderSendAnswer(outcome)
  \/ ProviderSendReturn
  \/ \E verified \in BOOLEAN : VerifyConnectionCompletes(verified)
  \/ SendCalled(1)
  \/ PrimaryCompletes(1)
  \/ FallbackCompletes(1)
  \/ SendReturned(1)

InitProviderOnly == InitRouter /\ StoreAtRest /\ InitSession /\ MessagingAtRest

SpecProvider == InitProviderOnly /\ [][NextProvider]_vars

\* connectDB under concurrent callers
NextConnect ==
  \/ \E c \in Callers : CallerArrives(c)
  \/ \E c \in Callers : ConnectDBCall(c)
  \/ \E p \in 1..MaxConnects, state \in {"resolved", "rejected"} :
       ConnectSettles(p, state)
  \/ \E c \in Callers : ConnectDBResume(c)
  \/ \E c \in Callers : CallerLeaves(c)

InitConnectOnly == RouterAtRest /\ StoreAtRest /\ InitSession /\ MessagingAtRest

SpecConnect == InitConnectOnly /\ [][NextConnect]_vars

\* every endpoint, one request at a time: the next request is taken once the
\* last answer was looked at
OneAtATime == loginResp = <<>> /\ authResult = <<>> /\ request.pc = "idle"

ServePartnerLogin(req, fault) == OneAtATime /\ LoginPartner(req, fault)

ServeApiKeyLogin(req, fault) == OneAtATime /\ LoginApiKey(req, fault)

ServeValidate(header) == OneAtATime /\ Validate(header)

ServeSendEmail(header) == OneAtATime /\ SendEmailStart(header)

ServeSendSms(header) == OneAtATime /\ SendSmsStart(header)

\* the answer of a login or of validateToken was looked at
Served ==
  /\ loginResp # <<>> \/ authResult # <<>>
  /\ loginResp' = <<>>
  /\ authResult' = <<>>
  /\ UNCHANGED <<routerVars, now, storeVars, held, msgVars>>

NextService ==
  \/ \E req \in PartnerRequests, fault \in PartnerFaults :
       ServePartnerLogin(req, fault)
  \/ \E req \in ApiKeyRequests, fault \in ApiKeyFaults :
       ServeApiKeyLogin(req, fault)
  \/ \E header \in MessagingHeaders : ServeValidate(header)
  \/ Served
  \/ \E header \in MessagingHeaders : ServeSendEmail(header)
  \/ \E parsed \in BOOLEAN, body \in EmailBodies : SendEmailParse(parsed, body)
  \/ PrimaryCompletes(1)
  \/ FallbackCompletes(1)
  \/ SendEmailRespond
  \/ \E header \in MessagingHeaders : ServeSendSms(header)
  \/ \E parsed \in BOOLEAN, body \in SmsBodies : SendSmsParse(parsed, body)
  \/ \E outcome \in TwilioOutcomes : SendSmsComplete(outcome)
  \/ RequestDone

\* a deployment with every provider, sender address and Twilio variable set
EverythingConfigured ==
  /\ configured = [n \in ProviderNames |-> TRUE]
  /\ config = [primaryProvider |-> "resend", fallbackProvider |-> "sendgrid"]
  /\ transporter = TRUE
  /\ smtpVerify = "pending"
  /\ providerCall = NoProviderCall
  /\ sendPc = [c \in Calls |-> "idle"]
  /\ attempts = [c \in Calls |-> <<>>]
  /\ sendResult = [c \in Calls |-> NoResult]
  /\ fromEmails = ProviderNames
  /\ twilioEnv = [creds |-> "valid", phone |-> TRUE]
  /\ twilioInitialized = FALSE
  /\ twilioClient = FALSE
  /\ request = NoRequest

\* any store, a week after start-up, in a deployment with nothing or with
\* everything configured
InitServiceOnly ==
  /\ InitStore
  /\ now = TokenTTL
  /\ held = <<>>
  /\ loginResp = <<>>
  /\ authResult = <<>>
  /\ (RouterAtRest /\ MessagingAtRest) \/ EverythingConfigured

SpecService == InitServiceOnly /\ [][NextService]_vars

\* the two messaging endpoints
InitMessagingOnly == StoreAtRest /\ InitMessaging

SpecMessaging == InitMessagingOnly /\ [][NextMessaging]_vars

\* everything the service does
Next ==
  \/ NextProvider
  \/ NextConnect
  \/ NextRouter
  \/ NextAuth
  \/ NextSession
  \/ NextLogin
  \/ NextToken
  \/ NextMessaging

Spec == Init /\ [][Next]_vars

(***************************************************************************)
(* Claims about the dispatch router.                                       *)
(***************************************************************************)
AttemptsOf(c) == {attempts[c][i] : i \in 1..Len(attempts[c])}

PrimaryAttemptSucceeded(c) ==
  /\ attempts[c] # <<>>
  /\ attempts[c][1].role = "primary"
  /\ attempts[c][1].state = "done"
  /\ attempts[c][1].result.success

\* C1: when the primary provider is configured and its send reports
\* success, the call makes no fallback attempt and returns the primary's
\* result.
C1_PrimarySuccessReturned ==
  \A c \in Calls :
    PrimaryAttemptSucceeded(c) =>
      /\ Len(attempts[c]) = 1
      /\ sendPc[c] = "done"
      /\ sendResult[c] = attempts[c][1].result
      /\ sendResult[c].provider = config.primaryProvider

\* a call whose primary succeeded while a configured, different fallback
\* stood ready
C1_Witness ==
  \E c \in Calls :
    /\ PrimaryAttemptSucceeded(c)
    /\ config.fallbackProvider # config.primaryProvider
    /\ IsConfigured(config.fallbackProvider)

\* C2: the send of a provider whose isConfigured() is false is never
\* called by the router, in any call of any sequence of calls and for any
\* primary/fallback selection.
C2_UnconfiguredNeverAttempted ==
  \A c \in Calls : \A a \in AttemptsOf(c) :
    a.name \in ProviderNames /\ configured[a.name]

\* a completed call that skipped a registered, unconfigured primary and
\* attempted the fallback
C2_Witness ==
  \E c \in Calls :
    /\ sendPc[c] = "done"
    /\ config.primaryProvider \in ProviderNames
    /\ ~configured[config.primaryProvider]
    /\ Len(attempts[c]) = 1
    /\ attempts[c][1].name = config.fallbackProvider

\* C3: one call makes at most two provider sends and never attempts one
\* provider twice; with the fallback name equal to the primary name a
\* failed primary is not attempted again and the call ends with the
\* terminal failure after that single attempt.
C3_AtMostTwoDistinctAttempts ==
  \A c \in Calls :
    /\ Len(attempts[c]) <= 2
    /\ \A i, j \in 1..Len(attempts[c]) :
         i # j => attempts[c][i].name # attempts[c][j].name
    /\ ( /\ config.fallbackProvider = config.primaryProvider
         /\ attempts[c] # <<>>
         /\ attempts[c][1].state = "done"
         /\ ~attempts[c][1].result.success )
       => /\ Len(attempts[c]) = 1
          /\ sendPc[c] = "done"
          /\ ~sendResult[c].success
          /\ sendResult[c].error =
               "All email providers failed or are not configured"

\* a call with fallback = primary whose only attempt failed
C3_Witness ==
  \E c \in Calls :
    /\ config.fallbackProvider = config.primaryProvider
    /\ sendPc[c] = "done"
    /\ Len(attempts[c]) = 1
    /\ ~attempts[c][1].result.success

FallbackAttemptSucceeded(c) ==
  /\ attempts[c] # <<>>
  /\ attempts[c][Len(attempts[c])].role = "fallback"
  /\ attempts[c][Len(attempts[c])].state = "done"
  /\ attempts[c][Len(attempts[c])].result.success

\* C4: when the primary is unconfigured or failed and the fallback is
\* configured, differs from the primary and succeeds, the call returns
\* success = true with provider = the fallback's name.
C4_FallbackSuccessNamed ==
  \A c \in Calls :
    FallbackAttemptSucceeded(c) =>
      /\ sendPc[c] = "done"
      /\ sendResult[c].success
      /\ sendResult[c].provider = config.fallbackProvider
      /\ config.fallbackProvider # config.primaryProvider

\* the fallback succeeded after the primary was skipped as unconfigured
C4_Witness ==
  \E c \in Calls :
    /\ FallbackAttemptSucceeded(c)
    /\ Len(attempts[c]) = 1
    /\ ~IsConfigured(config.primaryProvider)

NoAttemptSucceeded(c) == \A a \in AttemptsOf(c) : ~a.result.success

\* C5: when no attempt succeeded (both failed, or none was made) the call
\* returns exactly {success:false, error:"All email providers failed or
\* are not configured"}: no provider, no messageId, no provider error text.
C5_TerminalFailureExact ==
  \A c \in Calls :
    (sendPc[c] = "done" /\ NoAttemptSucceeded(c)) =>
      /\ sendResult[c] =
           [success |-> FALSE, messageId |-> Undefined, provider |-> Undefined,
            error |-> "All email providers failed or are not configured"]
      /\ sendResult[c].error \notin ProviderErrorTexts

\* both configured providers were attempted and both failed
C5_Witness ==
  \E c \in Calls :
    /\ sendPc[c] = "done"
    /\ Len(attempts[c]) = 2
    /\ NoAttemptSucceeded(c)

\* C6: within one call the fallback's send starts only after the primary's
\* send completed with a failure (or the primary was skipped as
\* unconfigured), and no two sends of one call are in flight together.
C6_SequentialFailover ==
  \A c \in Calls :
    /\ Cardinality(InFlight(c)) <= 1
    /\ \A i \in 1..Len(attempts[c]) :
         attempts[c][i].role = "fallback" =>
           \/ i = 1 /\ ~IsConfigured(config.primaryProvider)
           \/ /\ i = 2
              /\ attempts[c][1].role = "primary"
              /\ attempts[c][1].state = "done"
              /\ ~attempts[c][1].result.success

\* the fallback is in flight after the primary failed
C6_Witness ==
  \E c \in Calls :
    /\ Len(attempts[c]) = 2
    /\ attempts[c][2].state = "inflight"
    /\ attempts[c][1].state = "done"

(***************************************************************************)
(* Claims about the messaging endpoints.                                   *)
(***************************************************************************)
\* the steps of a handler that come after token validation
LaterSteps == {"json", "fields", "format", "config", "length", "send"}

StepsTaken == {request.log[i] : i \in 1..Len(request.log)}

\* C7: on both messaging endpoints token validation is the first step.  A
\* request whose validateToken result is not success is answered 401 with no
\* body parsing, no configuration check and no provider send; and a provider
\* send (email router or Twilio) happens only in a request whose first step
\* was a successful token validation.
C7_ValidationFirst ==
  /\ request.kind # "none" =>
       /\ request.log # <<>>
       /\ request.log[1] = "validateToken"
       /\ ~ValidateToken(request.header, now).success =>
            /\ request.pc = "done"
            /\ request.response.status = 401
            /\ ~request.response.success
            /\ StepsTaken \cap LaterSteps = {}
            /\ sendPc[1] = "idle"
            /\ attempts[1] = <<>>
       /\ ("send" \in StepsTaken \/ request.pc = "sending") =>
            /\ ValidateToken(request.header, now).success
            /\ request.authOk
  /\ (sendPc[1] # "idle" \/ attempts[1] # <<>>) =>
       /\ request.kind = "email"
       /\ request.authOk
       /\ "send" \in StepsTaken

\* a request with an expired token has been answered 401 by an endpoint
\* whose provider is ready to send
C7_Witness ==
  /\ request.pc = "done"
  /\ request.response.status = 401
  /\ request.header.present
  /\ ~ValidateToken(request.header, now).success
  /\ \/ request.kind = "sms" /\ twilioEnv.creds = "valid" /\ twilioEnv.phone
     \/ request.kind = "email" /\ GetConfiguredProviders # {}

(***************************************************************************)
(* Claims about the token validator.                                       *)
(***************************************************************************)
\* the fixed user-facing message of each failure of validateToken
FixedMessage(error) ==
  CASE error = "Missing authorization token" ->
         "Missing authorization token. Please include 'Authorization: Bearer <token>' header."
    [] error = "Invalid authorization format" ->
         "Invalid authorization format. Use 'Authorization: Bearer <token>'."
    [] error = "Empty token" -> "Authorization token is empty."
    [] error = "Token expired" -> "Token has expired. Please login again."
    [] error = "Invalid token" -> "Invalid token. Please login again."
    [] error = "Authentication failed" ->
         "Authentication failed. Please login again."
    [] OTHER -> "no such failure"

HeaderMissing(h) == ~h.present \/ h.text = <<>>

\* C8: validateToken answers every header with success and claims or with
\* exactly one tagged failure, decided in the order MissingHeader,
\* MalformedScheme, EmptyToken, then Expired / Invalid / Unknown from the
\* verification; every failure carries a 401 response with success:false
\* and the fixed message of its tag.
C8_TaggedFailures ==
  authResult # <<>> =>
    LET h   == authResult[1].header
        res == authResult[1].result
    IN /\ HeaderMissing(h) =>
            ~res.success /\ res.error = "Missing authorization token"
       /\ (~HeaderMissing(h) /\ h.text[1] # "Bearer ") =>
            ~res.success /\ res.error = "Invalid authorization format"
       /\ (~HeaderMissing(h) /\ h.text = <<"Bearer ">>) =>
            ~res.success /\ res.error = "Empty token"
       /\ (~HeaderMissing(h) /\ h.text[1] = "Bearer " /\ Len(h.text) > 1) =>
            \/ res.success
            \/ res.error \in
                 {"Token expired", "Invalid token", "Authentication failed"}
       /\ res.success =>
            /\ ClaimFields \subseteq DOMAIN res.user
            /\ res.error = Undefined
       /\ ~res.success =>
            /\ res.user = <<>>
            /\ res.response.status = 401
            /\ res.response.success = FALSE
            /\ res.response.error = FixedMessage(res.error)
            /\ res.response.error # "no such failure"

\* a header of just the scheme prefix is answered EmptyToken with a 401
C8_Witness ==
  /\ authResult # <<>>
  /\ authResult[1].header = HeaderOf(<<"Bearer ">>)
  /\ authResult[1].result.error = "Empty token"
  /\ authResult[1].result.response.status = 401

\* the last validation was of a well-formed token past its expiry
ExpiredTokenPresented ==
  /\ authResult # <<>>
  /\ authResult[1].header.present
  /\ Len(authResult[1].header.text) = 2
  /\ authResult[1].header.text[1] = "Bearer "
  /\ authResult[1].header.text[2].kind = "jwt"
  /\ authResult[1].at >= authResult[1].header.text[2].exp

\* C9 as stated: a token whose expiry has elapsed is always rejected with
\* the reason Expired, never with Invalid, and never accepted.
C9_ExpiredAlwaysExpired ==
  ExpiredTokenPresented =>
    /\ ~authResult[1].result.success
    /\ authResult[1].result.error = "Token expired"

\* C9, amended: a token whose expiry has elapsed is never accepted; when
\* its signature verifies against the service's secret and it carries no
\* not-before claim still in the future the reason is Expired, and when
\* its signature does not verify the reason is Invalid.
C9_ExpiredSignedToken ==
  ExpiredTokenPresented =>
    LET token == authResult[1].header.text[2]
        res   == authResult[1].result
    IN /\ ~res.success
       /\ (token.key = JWT_SECRET /\ ~(token.hasNbf /\ token.nbf > authResult[1].at))
            => res.error = "Token expired"
       /\ token.key # JWT_SECRET => res.error = "Invalid token"

\* a token signed with the service's secret is presented on the very day
\* it expires and is answered Expired
C9_Witness ==
  /\ ExpiredTokenPresented
  /\ authResult[1].header.text[2].key = JWT_SECRET
  /\ authResult[1].at = authResult[1].header.text[2].exp
  /\ authResult[1].result.error = "Token expired"

(***************************************************************************)
(* Claims about login and the tokens it issues.                            *)
(***************************************************************************)
\* the token of a successful login is presented on the day it was issued
PresentedAtIssuance ==
  /\ held # <<>>
  /\ authResult # <<>>
  /\ authResult[1].header = HeaderOf(<<"Bearer ", held[1].token>>)
  /\ authResult[1].at = held[1].token.iat

\* C10: a token issued by a successful login and presented at once as
\* 'Bearer <token>' is accepted, and the user claims returned equal the
\* claims userId, email, partnerId, role, plan handed to jwt.sign.
C10_RoundTrip ==
  PresentedAtIssuance =>
    /\ authResult[1].result.success
    /\ \A f \in ClaimFields :
         /\ f \in DOMAIN authResult[1].result.user
         /\ authResult[1].result.user[f] = held[1].claims[f]

\* an API-key login of a user without partner: the null partnerId comes
\* back as null
C10_Witness ==
  /\ PresentedAtIssuance
  /\ authResult[1].result.success
  /\ held[1].claims.partnerId = Null
  /\ authResult[1].result.user.partnerId = Null

(***************************************************************************)
(* Claims about the login endpoints.                                       *)
(***************************************************************************)
\* the login answered last
Last == loginResp[1]

\* the documents an email names, whatever its case
Named(email) == {id \in DOMAIN users : users[id].email = ToLowerCase(email)}

\* the partners an email names
PartnerNamed(email) == {id \in Named(email) : users[id].role = "partner"}

\* the request names user `id` with the right password and, in partner mode,
\* the partner the user belongs to; in API-key mode it presents some key
Identifies(id) ==
  /\ IsString(Last.request.username)
  /\ id \in Named(Last.request.username)
  /\ Last.request.password = users[id].password
  /\ \/ /\ Last.mode = "partner"
        /\ IsString(Last.request.partner)
        /\ users[id].partnerId \in PartnerNamed(Last.request.partner)
     \/ /\ Last.mode = "apiKey"
        /\ Last.request.apiKey # ""

\* nothing failed before the approval check
NoFaultBeforeStatus == Last.fault \in {"none", "findById"}

\* C12: in both login modes a user whose apiAccess.status is none, pending
\* or rejected never receives a token; when the request identifies that user
\* with the correct password the response is 403 with success:false and
\* apiAccessStatus equal to the user's status.
C12_UnapprovedBlocked ==
  loginResp # <<>> =>
    /\ Last.response.token # <<>> =>
         users[Last.response.user[1].id].status = "approved"
    /\ \A id \in DOMAIN users :
         (users[id].status # "approved" /\ Identifies(id) /\ NoFaultBeforeStatus)
           => /\ Last.response.status = 403
              /\ Last.response.success = FALSE
              /\ Last.response.apiAccessStatus = users[id].status
              /\ Last.response.token = <<>>

\* a rejected user gave the right password, in API-key mode with the right
\* key as well
C12_Witness ==
  /\ loginResp # <<>>
  /\ users["u1"].status = "rejected"
  /\ Identifies("u1")
  /\ Last.mode = "apiKey"
  /\ Last.request.apiKey = users["u1"].apiKey
  /\ Last.response.status = 403

\* the claims of the token the last login issued
IssuedClaims == Last.response.token[1].payload

\* C13: for every successful partner-mode login the claims of the issued
\* token are exactly userId = the authenticated user's id, email = that
\* user's stored email, partnerId = the id of the partner named in the
\* request, role = the user's role and plan = the user's plan.
C13_PartnerTokenClaims ==
  (loginResp # <<>> /\ Last.mode = "partner" /\ Last.response.status = 200) =>
    \E id \in Named(Last.request.username),
       pid \in PartnerNamed(Last.request.partner) :
      /\ Last.request.password = users[id].password
      /\ Last.response.user[1].id = id
      /\ DOMAIN IssuedClaims = ClaimFields
      /\ IssuedClaims.userId = id
      /\ IssuedClaims.email = users[id].email
      /\ IssuedClaims.partnerId = pid
      /\ IssuedClaims.role = users[id].role
      /\ IssuedClaims.plan = users[id].plan

\* a partner-mode login succeeded for a request that wrote both emails in
\* capitals
C13_Witness ==
  /\ loginResp # <<>>
  /\ Last.mode = "partner"
  /\ Last.response.status = 200
  /\ Last.request.username = "U1@X.IO"
  /\ Last.request.partner = "P1@X.IO"

\* a partner-mode request with its three fields, the partner a string
PartnerFieldsGiven ==
  /\ Last.mode = "partner"
  /\ Last.request.username # ""
  /\ Last.request.password # ""
  /\ Last.request.partner # ""
  /\ IsString(Last.request.partner)

\* such a request when nothing fails before the partner was looked up
PartnerRequestLooksUp ==
  /\ PartnerFieldsGiven
  /\ Last.fault \in {"none", "findUser"}

\* how often the handler called an operation
Count(op) == Cardinality({i \in 1..Len(Last.ops) : Last.ops[i] = op})

\* C14: partner-mode login issues a token only if the named partner exists
\* with role partner and the user's partnerId is that partner's id; an
\* unknown or non-partner email is answered 401 "Invalid partner" before any
\* user lookup; a user that exists but belongs to another partner, or to
\* none, is answered 401 without a token.
C14_PartnerMembership ==
  (loginResp # <<>> /\ Last.mode = "partner") =>
    /\ Last.response.token # <<>> =>
         \E pid \in PartnerNamed(Last.request.partner) :
           users[Last.response.user[1].id].partnerId = pid
    /\ (PartnerRequestLooksUp /\ PartnerNamed(Last.request.partner) = {}) =>
         /\ Last.response = LoginFailure(401, "Invalid partner")
         /\ Count("findOne") = 1
         /\ Count("comparePassword") = 0
    /\ \A id \in Named(Last.request.username) :
         ( /\ PartnerRequestLooksUp
           /\ Last.fault = "none"
           /\ IsString(Last.request.username)
           /\ PartnerNamed(Last.request.partner) # {}
           /\ users[id].partnerId \notin PartnerNamed(Last.request.partner) )
         => /\ Last.response.status = 401
            /\ Last.response.token = <<>>

\* the request named an existing user that is no partner as the partner
C14_Witness ==
  /\ loginResp # <<>>
  /\ Last.mode = "partner"
  /\ Last.request.partner = "u1@x.io"
  /\ Last.request.username = "u1@x.io"
  /\ Last.request.password = "pw-u1"
  /\ Last.fault = "none"
  /\ Last.response.error = "Invalid partner"

\* C15: API-key-mode login issues a token only if the password verifies,
\* apiAccess.status is approved and the stored apiAccess.apiKey is set and
\* equal to the presented apiKey; an approved user with no stored apiKey is
\* answered 401 "Invalid API key" for every presented key.
C15_ApiKeyGate ==
  (loginResp # <<>> /\ Last.mode = "apiKey") =>
    /\ Last.response.token # <<>> =>
         LET user == users[Last.response.user[1].id]
         IN /\ Last.response.user[1].id \in Named(Last.request.username)
            /\ Last.request.password = user.password
            /\ user.status = "approved"
            /\ user.apiKey # Undefined
            /\ user.apiKey = Last.request.apiKey
    /\ \A id \in DOMAIN users :
         ( /\ Identifies(id)
           /\ NoFaultBeforeStatus
           /\ users[id].status = "approved"
           /\ users[id].apiKey = Undefined )
         => Last.response = LoginFailure(401, "Invalid API key")

\* an approved user without a stored key presented a key
C15_Witness ==
  /\ loginResp # <<>>
  /\ Last.mode = "apiKey"
  /\ Identifies("u1")
  /\ users["u1"].status = "approved"
  /\ users["u1"].apiKey = Undefined
  /\ Last.request.apiKey = "key1"
  /\ Last.response.error = "Invalid API key"

\* the request is one the API-key handler accepts when the store answers
ApiKeyRequestAccepted(id) ==
  /\ Last.mode = "apiKey"
  /\ Identifies(id)
  /\ Last.fault = "none"
  /\ users[id].status = "approved"
  /\ users[id].apiKey = Last.request.apiKey

\* C16: in API-key mode partner resolution is best-effort: when the user's
\* partnerId refers to no existing record login still succeeds with 200, the
\* response's user.partner is null, and the token's partnerId is the user's
\* stored partnerId; it is null only when the user has no partnerId.
C16_BestEffortPartner ==
  loginResp # <<>> =>
    \A id \in DOMAIN users :
      ApiKeyRequestAccepted(id) =>
        /\ Last.response.status = 200
        /\ Last.response.token # <<>>
        /\ users[id].partnerId \notin DOMAIN users =>
             Last.response.user[1].partner = <<>>
        /\ users[id].partnerId # Undefined =>
             IssuedClaims.partnerId = users[id].partnerId
        /\ IssuedClaims.partnerId = Null <=> users[id].partnerId = Undefined

\* a user whose partner record is gone logged in
C16_Witness ==
  /\ loginResp # <<>>
  /\ ApiKeyRequestAccepted("u1")
  /\ users["u1"].partnerId = "gone"
  /\ Last.response.status = 200
  /\ Last.response.user[1].partner = <<>>

\* the requests that reach the store operation that fails
FaultHit ==
  \/ Last.fault = "connectDB" /\ ~Last.connected
  \/ /\ Last.fault = "findPartner"
     /\ PartnerFieldsGiven
  \/ /\ Last.fault = "findUser"
     /\ Last.mode = "apiKey"
     /\ IsString(Last.request.username)
     /\ Last.request.username # ""
     /\ Last.request.password # ""
     /\ Last.request.apiKey # ""
  \/ /\ Last.fault = "findUser"
     /\ PartnerRequestLooksUp
     /\ IsString(Last.request.username)
     /\ PartnerNamed(Last.request.partner) # {}
  \/ /\ Last.fault = "findById"
     /\ \E id \in DOMAIN users :
          /\ Last.mode = "apiKey"
          /\ Identifies(id)
          /\ users[id].status = "approved"
          /\ users[id].apiKey = Last.request.apiKey
          /\ users[id].partnerId # Undefined

\* the operation of the store that a fault makes fail
FaultOp ==
  CASE Last.fault = "connectDB" -> "connectDB"
    [] Last.fault = "findById" -> "findById"
    [] OTHER -> "findOne"

\* C17: in both login modes an error raised by the store (connection
\* failure, lookup failure) at any step ends the request with HTTP 500
\* {success:false, error:"Internal server error"}: no token is issued, the
\* operation is not tried again, and the text of the store's error is not in
\* the response.
C17_StoreErrorIs500 ==
  loginResp # <<>> =>
    /\ FaultHit =>
         /\ Last.response = LoginFailure(500, "Internal server error")
         /\ Last.response.token = <<>>
         /\ Last.claims = <<>>
         /\ Last.ops[Len(Last.ops)] = FaultOp
    /\ Count("connectDB") <= 1
    /\ Count("findById") <= 1
    /\ Count("findOne") <= (IF Last.mode = "partner" THEN 2 ELSE 1)
    /\ Last.response.status = 500 =>
         Last.response = LoginFailure(500, "Internal server error")

\* the lookup of the partner record failed after the user had been found,
\* the password verified and the key matched
C17_Witness ==
  /\ loginResp # <<>>
  /\ Last.fault = "findById"
  /\ Last.ops # <<>>
  /\ Last.ops[Len(Last.ops)] = "findById"
  /\ Last.response.status = 500

\* the request leaves out a field its mode requires
LacksField ==
  \/ Last.request.username = ""
  \/ Last.request.password = ""
  \/ Last.mode = "partner" /\ Last.request.partner = ""
  \/ Last.mode = "apiKey" /\ Last.request.apiKey = ""

MissingFieldsMessage ==
  IF Last.mode = "partner"
  THEN "Please provide username, password, and partner"
  ELSE "Please provide username, password, and apiKey"

\* C18: a login request that lacks a required field (username, password,
\* and partner resp. apiKey) is answered 400 at once, in every state of the
\* store connection (established, not yet established, failing), without
\* any user lookup.
C18_MissingFieldIs400 ==
  (loginResp # <<>> /\ Last.fault # "json" /\ LacksField) =>
    /\ Last.response = LoginFailure(400, MissingFieldsMessage)
    /\ Count("findOne") = 0
    /\ Count("findById") = 0

(***************************************************************************)
(* Claims about issued tokens.                                             *)
(***************************************************************************)
\* the request carries a token that a login of this service issued
CarriesIssuedToken ==
  /\ request.kind # "none"
  /\ request.header.present
  /\ Len(request.header.text) = 2
  /\ request.header.text[1] = "Bearer "
  /\ request.header.text[2].kind = "jwt"
  /\ request.header.text[2].key = JWT_SECRET
  /\ ~request.header.text[2].hasNbf

\* the day the request's token was issued
IssuedOn == request.header.text[2].iat

\* C11: token validity is exactly "signature valid and less than 7 days
\* since issuance".  validateToken consults no server-side state: whatever
\* happened to the user record since (status no longer approved, apiKey
\* changed, user removed), a messaging request carrying an issued token is
\* accepted when it arrives less than 7 days after issuance and rejected as
\* expired from then on.
C11_TokenSelfContained ==
  CarriesIssuedToken =>
    IF request.at < IssuedOn + TokenTTL
    THEN /\ request.authOk
         /\ request.response.status # 401
    ELSE /\ ~request.authOk
         /\ request.pc = "done"
         /\ request.response =
              ErrorResponse(401, "Token has expired. Please login again.")

\* on the last day of its token an SMS request is accepted although the
\* user's document is gone
C11_Witness ==
  /\ CarriesIssuedToken
  /\ request.kind = "sms"
  /\ request.pc = "parsing"
  /\ request.at = IssuedOn + TokenTTL - 1
  /\ request.at = now
  /\ request.authOk
  /\ "u1" \notin DOMAIN users

(***************************************************************************)
(* Claims about the email endpoint.                                        *)
(***************************************************************************)
\* an authenticated email request whose body was parsed
EmailRequestParsed ==
  /\ request.kind = "email"
  /\ request.authOk
  /\ Len(request.log) >= 2
  /\ request.body # NoBody

\* businessGroup, to, subject and body are all present
AllFieldsPresent ==
  /\ ~FalsyText(request.body.businessGroup)
  /\ ~FalsyTo(request.body.to)
  /\ ~FalsyText(request.body.subject)
  /\ ~FalsyText(request.body.body)

\* C19: email endpoint: every authenticated request with all of
\* businessGroup, to, subject and body present whose `to` does not match the
\* email-address pattern is answered 400 "Invalid email address format",
\* whatever the provider configuration, and no provider send is attempted.
C19_BadAddressIs400 ==
  (EmailRequestParsed /\ AllFieldsPresent
     /\ ~EmailRegexTest(request.body.to.chars)) =>
    /\ request.response = ErrorResponse(400, "Invalid email address format")
    /\ "send" \notin StepsTaken
    /\ attempts[1] = <<>>

\* a request of strings only, with an address that matches
ValidEmailRequest ==
  /\ EmailRequestParsed
  /\ AllFieldsPresent
  /\ request.body.businessGroup.type = "string"
  /\ request.body.subject.type = "string"
  /\ request.body.body.type = "string"
  /\ request.body.to.type = "string"
  /\ EmailRegexTest(request.body.to.chars)

\* C20: email endpoint: when no email provider is configured, or no default
\* from address resolves, a valid authenticated request is answered 500
\* "Email service is not configured. Please contact administrator." and
\* EmailService.send is not called.
C20_NotConfiguredIs500 ==
  (ValidEmailRequest
     /\ (GetConfiguredProviders = {} \/ fromEmails = {})) =>
    /\ request.response =
         ErrorResponse(500,
           "Email service is not configured. Please contact administrator.")
    /\ "send" \notin StepsTaken
    /\ sendPc[1] = "idle"
    /\ attempts[1] = <<>>

\* providers are configured, yet no from address is set
C20_Witness ==
  /\ ValidEmailRequest
  /\ GetConfiguredProviders = {"resend", "sendgrid"}
  /\ fromEmails = {}
  /\ request.response.status = 500

(***************************************************************************)
(* The SMS endpoint.                                                       *)
(***************************************************************************)
\* an authenticated SMS request whose body was read, with businessGroup, to
\* and body present and a `to` string that matches the phone pattern
ValidSmsRequest ==
  /\ request.kind = "sms"
  /\ request.authOk
  /\ request.pc \in {"sending", "done"}
  /\ ~FalsyText(request.body.businessGroup)
  /\ ~FalsyTo(request.body.to)
  /\ ~FalsyText(request.body.body)
  /\ request.body.to.type = "string"
  /\ PhoneRegexTest(StripPhone(request.body.to.chars))

\* the length of "[businessGroup] " followed by the body
SmsTextLength ==
  Len(<<"[">>) + request.body.businessGroup.len + Len(<<"]", " ">>)
    + request.body.body.len

\* the length check's part of a response
LengthChecked ==
  IF SmsTextLength > SmsMaxLength
  THEN /\ request.pc = "done"
       /\ request.response =
            ErrorResponse(400,
              "Message body is too long. Maximum length is 1600 characters.")
       /\ "send" \notin StepsTaken
       /\ request.smsOutcome = "none"
  ELSE "send" \in StepsTaken

StrictE164(chars) ==
  /\ Len(chars) >= 3
  /\ Len(chars) <= 16
  /\ chars[1] = "+"
  /\ chars[2] \in {"1", "2", "3", "4", "5", "6", "7", "8", "9"}
  /\ \A k \in 3..Len(chars) : IsDigit(chars[k])

\* `to` without its spaces, parentheses and dashes
Stripped == StripPhone(request.body.to.chars)

\* C22: SMS normalisation: the number handed to the provider is `to` with
\* spaces, parentheses and dashes removed and a leading "+" prepended when
\* absent, and it always matches ^\+[1-9]\d{1,14}$; a `to` string that fails
\* the pattern after stripping is answered 400 and never reaches the provider.
C22_NormalisedDestination ==
  (request.kind = "sms" /\ request.authOk) =>
    /\ "send" \in StepsTaken =>
         /\ request.smsTo =
              (IF Stripped[1] = "+" THEN Stripped ELSE <<"+">> \o Stripped)
         /\ StrictE164(request.smsTo)
    /\ (/\ request.pc \in {"sending", "done"}
        /\ request.body.to.type = "string"
        /\ ~PhoneRegexTest(Stripped)) =>
         /\ request.pc = "done"
         /\ request.response.status = 400
         /\ "send" \notin StepsTaken
         /\ request.smsTo = <<>>

\* "(12) 3-4" went to the provider as "+1234"
C22_Witness ==
  /\ request.kind = "sms"
  /\ "send" \in StepsTaken
  /\ request.body.to.chars = <<"(", "1", "2", ")", " ", "3", "-", "4">>
  /\ request.smsTo = <<"+", "1", "2", "3", "4">>

\* how often the handler called messages.create
ProviderCalls ==
  Cardinality({i \in 1..Len(request.log) : request.log[i] = "send"})

\* C23: SMS error mapping: a provider failure with code 21211 is answered 400
\* "Invalid phone number", 21408 is 403 "Permission denied to send SMS to this
\* number", 21610 is 400 "Phone number is not reachable or opted out", 21614
\* is 400 "Invalid phone number format", every other failure is 500; the
\* provider is called at most once for a request and nothing is tried after
\* it failed.
C23_ErrorMapping ==
  request.kind = "sms" =>
    /\ ProviderCalls <= 1
    /\ attempts[1] = <<>>
    /\ (request.pc = "done" /\ request.smsOutcome # "none") =>
         /\ ProviderCalls = 1
         /\ CASE request.smsOutcome = "ok" -> request.response.status = 200
              [] request.smsOutcome = "21211" ->
                   request.response = ErrorResponse(400, "Invalid phone number")
              [] request.smsOutcome = "21408" ->
                   request.response =
                     ErrorResponse(403, "Permission denied to send SMS to this number")
              [] request.smsOutcome = "21610" ->
                   request.response =
                     ErrorResponse(400, "Phone number is not reachable or opted out")
              [] request.smsOutcome = "21614" ->
                   request.response = ErrorResponse(400, "Invalid phone number format")
              [] OTHER -> request.response.status = 500

\* the provider refused the destination with code 21408
C23_Witness ==
  /\ request.kind = "sms"
  /\ request.pc = "done"
  /\ request.smsOutcome = "21408"
  /\ request.response.status = 403

(***************************************************************************)
(* The email endpoint and the router's provider selection.                 *)
(***************************************************************************)
\* C28: email endpoint: whenever a request passes the handler's
\* configuration check (getConfiguredProviders() non-empty and a from
\* address resolved), the EmailService.send that follows attempts at least
\* one provider, for every assignment of configured/unconfigured to the three
\* providers and every primary/fallback selection.
C28_ConfiguredMeansAttempted ==
  (/\ request.kind = "email"
   /\ request.pc = "sending"
   /\ "config" \in StepsTaken
   /\ "send" \in StepsTaken) =>
    attempts[1] # <<>>

(***************************************************************************)
(* The order of the login checks.                                          *)
(***************************************************************************)
\* wherever the handler did `later`, it had done `earlier` before
Precedes(earlier, later) ==
  \A j \in 1..Len(Last.ops) :
    Last.ops[j] = later => \E i \in 1..(j - 1) : Last.ops[i] = earlier

\* the request names user `id` (and, in partner mode, the user's partner)
\* and no field is missing, but the password is not the user's
WrongPasswordFor(id) ==
  /\ NoFaultBeforeStatus
  /\ IsString(Last.request.username)
  /\ id \in Named(Last.request.username)
  /\ Last.request.password # ""
  /\ Last.request.password # users[id].password
  /\ \/ /\ Last.mode = "partner"
        /\ IsString(Last.request.partner)
        /\ users[id].partnerId \in PartnerNamed(Last.request.partner)
     \/ /\ Last.mode = "apiKey"
        /\ Last.request.apiKey # ""

\* C30: login check order: in both modes the password is verified before
\* apiAccess.status is examined; a request with a wrong password is answered
\* the same 401 whatever the user's status; a 403 disclosing apiAccessStatus
\* is returned only after the password was verified against the user's; in
\* API-key mode the approval check precedes the apiKey check.
C30_PasswordBeforeStatus ==
  loginResp # <<>> =>
    /\ Precedes("comparePassword", "status")
    /\ Precedes("status", "apiKey")
    /\ \A id \in DOMAIN users :
         WrongPasswordFor(id) =>
           /\ Last.response = LoginFailure(401, "Invalid credentials")
           /\ "status" \notin {Last.ops[i] : i \in 1..Len(Last.ops)}
    /\ (Last.response.status = 403
          \/ Last.response.apiAccessStatus # Undefined) =>
         \E id \in DOMAIN users :
           /\ Identifies(id)
           /\ Last.response.apiAccessStatus = users[id].status

\* a rejected user's wrong password is answered like anyone's
C30_Witness ==
  /\ loginResp # <<>>
  /\ Last.mode = "apiKey"
  /\ WrongPasswordFor("u1")
  /\ users["u1"].status = "rejected"
  /\ Last.response = LoginFailure(401, "Invalid credentials")
  /\ Last.ops[Len(Last.ops)] = "comparePassword"

(***************************************************************************)
(* connectDB: callers that share an attempt.                               *)
(***************************************************************************)
\* C25: connectDB under concurrency: callers that arrive while a connection
\* attempt is in flight await that same attempt, so at no time are two
\* attempts in flight; once an attempt has succeeded, every later call
\* returns the memoized connection and mongoose.connect is never invoked
\* again.
C25_SingleFlight ==
  /\ Cardinality(InFlightConnections) <= 1
  /\ \A p \in 1..Len(connections) : ~connections[p].afterSuccess
  /\ \A c \in Callers :
       (callers[c].pc = "awaiting"
          /\ connections[callers[c].awaits].state = "pending") =>
         InFlightConnections = {callers[c].awaits}

\* C29: connectDB after a failure: every caller that shared the rejected
\* attempt receives the error, the memoized attempt is cleared and no
\* connection is cached, the next call starts one fresh attempt, and
\* clearing the failed attempt never discards a newer attempt in flight:
\* the attempt in flight is the memoized one.
C29_FailureClearsOwnAttempt ==
  /\ \A c \in Callers :
       /\ callers[c].pc = "threw" =>
            connections[callers[c].awaits].state = "rejected"
       /\ (callers[c].pc = "returned" /\ callers[c].awaits # 0) =>
            connections[callers[c].awaits].state = "resolved"
  /\ cached.conn =>
       \E p \in 1..Len(connections) : connections[p].state = "resolved"
  /\ \A p \in InFlightConnections : cached.promise /\ p = Len(connections)

(***************************************************************************)
(* The providers on their own.                                             *)
(***************************************************************************)
\* C26: a provider's isConfigured() is fixed once its constructor has
\* returned: no later step changes it.  For SMTP, a verifyConnection that
\* fails at any later time leaves isConfigured() true and the transporter in
\* place, and a send begun after the failure still goes to the transporter.
C26_ConfiguredIsFixed ==
  /\ [][configured' = configured /\ transporter' = transporter]_vars
  /\ [](/\ smtpVerify \in {"pending", "verified", "failed"} =>
             configured["smtp"] /\ transporter /\ CanSend("smtp")
        /\ (/\ providerCall.name = "smtp"
            /\ providerCall.verifyAtStart = "failed") =>
             /\ providerCall.transportCalls = 1
             /\ providerCall.pc = "done" =>
                  providerCall.result.error # NotConfiguredText("smtp"))

\* a mail went out through SMTP after the verification had failed
C26_Witness ==
  /\ smtpVerify = "failed"
  /\ providerCall.name = "smtp"
  /\ providerCall.verifyAtStart = "failed"
  /\ providerCall.pc = "done"
  /\ providerCall.result.success

\* C27: each provider's send makes at most one transport call and returns a
\* result, never an exception: {success:true, provider: its own name} or
\* {success:false, error, provider: its own name}; on a provider that is not
\* configured it returns the failure without a transport call.  So whenever
\* the router's primary attempt failed, the fallback stage is reached.
C27_SendReturnsResult ==
  /\ providerCall.pc # "idle" =>
       /\ providerCall.transportCalls =
            (IF configured[providerCall.name] THEN 1 ELSE 0)
       /\ providerCall.pc = "done" =>
            /\ providerCall.result.provider = providerCall.name
            /\ providerCall.result.success \in BOOLEAN
            /\ providerCall.result.success <=>
                 providerCall.result.error = Undefined
            /\ ~configured[providerCall.name] =>
                 providerCall.result =
                   ProviderFailure(providerCall.name,
                                   NotConfiguredText(providerCall.name))
  /\ \A i \in 1..Len(attempts[1]) :
       attempts[1][i].state = "done" =>
         attempts[1][i].result.provider = attempts[1][i].name
  /\ (/\ attempts[1] # <<>>
      /\ attempts[1][1].role = "primary"
      /\ attempts[1][1].state = "done"
      /\ ~attempts[1][1].result.success) =>
       IF FallbackAttempted
       THEN Len(attempts[1]) = 2 /\ attempts[1][2].role = "fallback"
       ELSE sendPc[1] = "done" /\ sendResult[1] = AllProvidersFailed(<<>>)

\* send was called on a Resend provider without API key
C27_Witness ==
  /\ providerCall.name = "resend"
  /\ ~configured["resend"]
  /\ providerCall.pc = "done"
  /\ providerCall.transportCalls = 0
  /\ providerCall.result.error =
       "Resend is not configured. Set RESEND_API_KEY environment variable."

(***************************************************************************)
(* The response envelope.                                                  *)
(***************************************************************************)
\* status, success and error of a response body
Envelope(response) ==
  [status |-> response.status, success |-> response.success,
   error |-> response.error]

\* the responses in sight: of the login answered last, of the messaging
\* request that ended, of the validateToken call that failed
ResponsesProduced ==
  (IF loginResp # <<>> THEN {Envelope(Last.response)} ELSE {})
    \cup (IF request.pc = "done" THEN {Envelope(request.response)} ELSE {})
    \cup (IF authResult # <<>> /\ ~authResult[1].result.success
          THEN {Envelope(authResult[1].result.response)} ELSE {})

\* C24: every response the login, send-email and send-sms handlers and
\* validateToken produce carries a boolean success that is true exactly when
\* the status is 200; every non-200 response has success false and an error
\* that is a string.
C24_ResponseEnvelope ==
  \A response \in ResponsesProduced :
    /\ response.success \in BOOLEAN
    /\ response.success <=> response.status = 200
    /\ response.status # 200 =>
         /\ response.success = FALSE
         /\ response.error \notin {Undefined, Null, NumberValue}

\* an SMS the provider refused, answered 403
C24_Witness ==
  /\ request.kind = "sms"
  /\ request.pc = "done"
  /\ request.response.status = 403
  /\ request.response.success = FALSE
  /\ Envelope(request.response) \in ResponsesProduced

=============================================================================
